---- MODULE Spec2Model ----
(***************************************************************************)
(* Data Health Assessment Engine (server/src/services/data_health_service  *)
(* and llm_dimension_selector): the deterministic batch assessment, the    *)
(* LLM-guided assessment and the dimension selector, over a small table.   *)
(*                                                                         *)
(* Conventions.  Scores and percentages are Python floats rounded to one   *)
(* decimal; they are kept here as integers in TENTHS (100.0 is 1000).      *)
(* Strings the code inspects (column names, declared types, cell values)   *)
(* are sequences of one-character strings, so that substring tests and     *)
(* regular expressions are computed and not assumed.  A Python dict is a   *)
(* function; "k in d" is k \in DOMAIN d.                                   *)
(*                                                                         *)
(* Specifications.  Spec takes each request as one step over a table that  *)
(* writers change between requests.  GradeSpec applies the grade function  *)
(* to a score.  AssessSpec and SelectSpec follow the two phases of an      *)
(* LLM-guided request step by step: coroutines on the event loop, worker   *)
(* threads, the selector's semaphore; FairAssessSpec and FairSelectSpec    *)
(* add the fairness of the event loop.                                     *)
(***************************************************************************)
EXTENDS Integers, Sequences, FiniteSets, TLC

VARIABLES table, report, coroutines, calls, semaphore, loop_thread

vars == <<table, report, coroutines, calls, semaphore, loop_thread>>

\* The coroutines of a phase of an LLM-guided request, the calls they have
\* made to worker threads, the semaphore of the selector and the coroutine
\* that holds the thread of the event loop.
sched == <<coroutines, calls, semaphore, loop_thread>>

(***************************************************************************)
(* Bounds of the model.                                                    *)
(***************************************************************************)
\* Largest number of inserts the table holds (a bulk load counts as one).
MaxRecords == 2

\* The number of rows of a bulk load.
BulkRows == 500

(***************************************************************************)
(* Program constants.                                                      *)
(***************************************************************************)
\* MODEL_MAPPING: the recognized schema types.
MODEL_MAPPING == {"ei_tech", "srs", "ni_tct", "ni_tct_augmented"}

\* The schema types a caller passes in: the recognized ones and one that is not.
SchemaTypeInputs == MODEL_MAPPING \cup {"legacy"}

\* CRITICAL_FIELDS of the schema types.
CRITICAL_FIELDS ==
    [ei_tech |-> {"event_id", "reporter_name", "reported_date", "branch", "region", "unsafe_event_type"},
     srs |-> {"event_id", "reporter_name", "reported_date", "branch", "region", "unsafe_event_type"},
     ni_tct |-> {"reporting_id", "reporter_name", "created_on", "branch_name", "region", "type_of_unsafe_event"},
     ni_tct_augmented |-> {"reporting_id", "reporter_name", "created_on", "branch_name", "region", "type_of_unsafe_event"}]

\* The five dimensions, in the order of the DIMENSION_WEIGHTS dict.
Dimensions == <<"completeness", "uniqueness", "consistency", "validity", "timeliness">>

DimensionSet == {Dimensions[i] : i \in 1..Len(Dimensions)}

DIMENSION_WEIGHTS ==
    [completeness |-> 25, uniqueness |-> 10, consistency |-> 20, validity |-> 20, timeliness |-> 25]

\* sample_size of _get_sample_data_for_patterns, and the values kept per column.
SampleSize == 500
SampleKeep == 100
\* limit(1000) of the per-column consistency sample.
ConsistencyLimit == 1000
\* Longest value the general pattern and validity checks accept.
MaxTextLen == 1000
\* Days between datetime(1900, 1, 1) and the current date.
DaysSince1900 == 46329

(***************************************************************************)
(* Strings as character sequences.                                         *)
(***************************************************************************)
UpperCase == <<"A","B","C","D","E","F","G","H","I","J","K","L","M",
               "N","O","P","Q","R","S","T","U","V","W","X","Y","Z">>
LowerCase == <<"a","b","c","d","e","f","g","h","i","j","k","l","m",
               "n","o","p","q","r","s","t","u","v","w","x","y","z">>
Digits == {"0","1","2","3","4","5","6","7","8","9"}
Whitespace == {" "}

\* str.lower()
LowerChar(ch) ==
    IF \E i \in 1..26 : UpperCase[i] = ch
    THEN LowerCase[CHOOSE i \in 1..26 : UpperCase[i] = ch]
    ELSE ch

Lower(s) == [i \in 1..Len(s) |-> LowerChar(s[i])]

\* sub in s
Contains(s, sub) ==
    \E i \in 1..(Len(s) - Len(sub) + 1) : SubSeq(s, i, i + Len(sub) - 1) = sub

\* len(s.strip()) == 0
IsBlank(s) == \A i \in 1..Len(s) : s[i] \in Whitespace

\* re.match(r'^[a-zA-Z0-9_-]+$', s)
MatchesIdPattern(s) ==
    /\ Len(s) >= 1
    /\ \A i \in 1..Len(s) :
          \/ s[i] \in Digits
          \/ s[i] \in {"_", "-"}
          \/ \E k \in 1..26 : s[i] = UpperCase[k] \/ s[i] = LowerCase[k]

\* s matches a pattern given as a sequence of "d" (a digit) and literal characters.
MatchesShape(s, shape) ==
    /\ Len(s) = Len(shape)
    /\ \A i \in 1..Len(s) : IF shape[i] = "d" THEN s[i] \in Digits ELSE s[i] = shape[i]

\* date_patterns of _check_date_patterns: YYYY-MM-DD, MM/DD/YYYY, MM-DD-YYYY.
date_patterns ==
    {<<"d","d","d","d","-","d","d","-","d","d">>,
     <<"d","d","/","d","d","/","d","d","d","d">>,
     <<"d","d","-","d","d","-","d","d","d","d">>}

MatchesDatePattern(s) == \E p \in date_patterns : MatchesShape(s, p)

(***************************************************************************)
(* The table behind the model class.  A cell is NULL, a string or a date;  *)
(* chars is what str(value) gives, age the days from the date to today.    *)
(***************************************************************************)
Null == [kind |-> "null", chars |-> <<>>, age |-> 0]
StrCell(s) == [kind |-> "str", chars |-> s, age |-> 0]
DateCell(iso, a) == [kind |-> "date", chars |-> iso, age |-> a]

\* The assessable columns (after 'id', 'created_at', 'updated_at' are filtered
\* out), in dict order.
AnalysisColumns == <<"event_id", "region", "reported_date">>

ColumnSet == {AnalysisColumns[i] : i \in 1..Len(AnalysisColumns)}

\* column.name as characters.
ColumnName ==
    [event_id |-> <<"e","v","e","n","t","_","i","d">>,
     region |-> <<"r","e","g","i","o","n">>,
     reported_date |-> <<"r","e","p","o","r","t","e","d","_","d","a","t","e">>]

\* str(column.type) as characters.
ColumnType ==
    [event_id |-> <<"V","A","R","C","H","A","R">>,
     region |-> <<"V","A","R","C","H","A","R">>,
     reported_date |-> <<"D","A","T","E">>]

\* The records that writers insert.
RecordPool ==
    {[event_id |-> StrCell(<<"E","1">>),
      region |-> StrCell(<<"N","o","r","t","h">>),
      reported_date |-> DateCell(<<"2","0","2","6","-","1","0","-","2","6">>, 10)],
     [event_id |-> StrCell(<<"E"," ","2">>),
      region |-> Null,
      reported_date |-> DateCell(<<"2","0","2","6","-","0","9","-","2","1">>, 45)],
     [event_id |-> Null,
      region |-> StrCell(<<" ">>),
      reported_date |-> Null]}

\* The table is a sequence of runs: n rows with the same values, as one
\* insert or one bulk load wrote them.
Rows(row, n) == [row |-> row, n |-> n]

\* The non-null values of a column, in table order; n tells how many rows
\* hold the value.
NonNullValues(tab, c) ==
    LET vals == [i \in 1..Len(tab) |->
                    [kind |-> tab[i].row[c].kind, chars |-> tab[i].row[c].chars,
                     age |-> tab[i].row[c].age, n |-> tab[i].n]]
    IN  SelectSeq(vals, LAMBDA v : v.kind # "null")

Min(a, b) == IF a <= b THEN a ELSE b

(***************************************************************************)
(* Arithmetic: round(x, 1) of a quotient, in tenths.                       *)
(***************************************************************************)
\* round(num / den) to the nearest integer (exact ties do not occur for the
\* quotients of this model, whose tables hold 0..3 or 500..503 rows; they
\* are rounded up).
RoundDiv(num, den) == (2 * num + den) \div (2 * den)

\* round((n / total) * 100, 1), in tenths.
Percent(n, total) == RoundDiv(1000 * n, total)

\* Sum of f[x] over a finite set.
RECURSIVE SumOver(_, _)
SumOver(S, f) ==
    IF S = {} THEN 0
    ELSE LET x == CHOOSE y \in S : TRUE IN f[x] + SumOver(S \ {x}, f)

\* Sum of a sequence of integers.
RECURSIVE SumSeq(_)
SumSeq(s) == IF s = <<>> THEN 0 ELSE Head(s) + SumSeq(Tail(s))

\* count(): the number of rows of a table, of values of a column.
Count(runs) == SumSeq([i \in 1..Len(runs) |-> runs[i].n])

\* limit(k) and [:k]: the first k rows or values.
RECURSIVE Take(_, _)
Take(runs, k) ==
    IF k <= 0 \/ runs = <<>> THEN <<>>
    ELSE IF Head(runs).n <= k THEN <<Head(runs)>> \o Take(Tail(runs), k - Head(runs).n)
    ELSE <<[Head(runs) EXCEPT !.n = k]>>

\* A query without ORDER BY returns the rows in an order the database
\* chooses: the scan starts at any row of the table and wraps around.
ScanFrom(tab, scan_start) == SubSeq(tab, scan_start, Len(tab)) \o SubSeq(tab, 1, scan_start - 1)

ScanStarts(tab) == IF tab = <<>> THEN {1} ELSE 1..Len(tab)

(***************************************************************************)
(* Heuristics on the column name and the declared type.                    *)
(***************************************************************************)
unique_indicators ==
    {<<"i","d">>, <<"k","e","y">>, <<"n","u","m","b","e","r">>, <<"n","o">>,
     <<"r","e","f","e","r","e","n","c","e">>}

\* A faulty variant: every column counts as ID-like.
_should_assess_uniqueness_always(column_name) == column_name \in DOMAIN ColumnName

_should_assess_uniqueness(column_name) ==
    \E indicator \in unique_indicators : Contains(Lower(ColumnName[column_name]), indicator)

_is_date_column(column_name) ==
    \/ Contains(Lower(ColumnType[column_name]), <<"d","a","t","e">>)
    \/ Contains(Lower(ColumnType[column_name]), <<"t","i","m","e">>)

\* 'date' in column_name.lower() and 'id' in column_name.lower()
NameHasDate(column_name) == Contains(Lower(ColumnName[column_name]), <<"d","a","t","e">>)
NameHasId(column_name) == Contains(Lower(ColumnName[column_name]), <<"i","d">>)

(***************************************************************************)
(* Pattern checks on str(value).                                           *)
(***************************************************************************)
_check_date_patterns(values) == Count(SelectSeq(values, LAMBDA s : ~MatchesDatePattern(s.chars)))

_check_id_patterns(values) ==
    Count(SelectSeq(values, LAMBDA s : ~MatchesIdPattern(s.chars) \/ IsBlank(s.chars)))

_check_general_patterns(values) ==
    Count(SelectSeq(values, LAMBDA s : IsBlank(s.chars) \/ Len(s.chars) > MaxTextLen))

(***************************************************************************)
(* The batch scorers of the deterministic path.  failAt is the column      *)
(* whose query raises ("none": no query raises); the handler of a batch    *)
(* scorer returns {} for the whole batch.                                  *)
(***************************************************************************)
EmptyDict == <<>>

_get_batch_completeness_stats(tab, columns, total_records, failAt) ==
    IF failAt \in columns THEN EmptyDict
    ELSE [column_name \in columns |->
            LET non_null_count == Count(NonNullValues(tab, column_name))
                null_count == total_records - non_null_count
            IN  [score |-> IF total_records > 0 THEN Percent(non_null_count, total_records) ELSE 0,
                 null_count |-> null_count,
                 non_null_count |-> non_null_count,
                 null_percentage |-> IF total_records > 0 THEN Percent(null_count, total_records) ELSE 0]]

\* COUNT(DISTINCT column) over the non-null values.
DistinctCount(values) == Cardinality({values[i].chars : i \in 1..Len(values)})

_get_batch_uniqueness_stats(tab, id_columns, total_records, failAt) ==
    IF failAt \in id_columns THEN EmptyDict
    ELSE [column_name \in id_columns |->
            LET unique_count == DistinctCount(NonNullValues(tab, column_name))
                non_null_count == Count(NonNullValues(tab, column_name))
            IN  [score |-> IF non_null_count = 0 THEN 0 ELSE Percent(unique_count, non_null_count),
                 unique_count |-> unique_count,
                 duplicate_count |-> IF non_null_count = 0 THEN 0 ELSE non_null_count - unique_count,
                 total_non_null |-> non_null_count]]

\* func.max / func.min of a date column: the cell with the least / greatest age.
LatestOf(values) ==
    values[CHOOSE i \in 1..Len(values) : \A j \in 1..Len(values) : values[i].age <= values[j].age]
OldestOf(values) ==
    values[CHOOSE i \in 1..Len(values) : \A j \in 1..Len(values) : values[i].age >= values[j].age]

\* The freshness ladder of _get_batch_timeliness_stats.
batch_freshness_score(days_since_latest) ==
    IF days_since_latest <= 30 THEN 1000
    ELSE IF days_since_latest <= 60 THEN 850
    ELSE IF days_since_latest <= 90 THEN 700
    ELSE IF days_since_latest <= 180 THEN 500
    ELSE 250

_get_batch_timeliness_stats(tab, date_columns, failAt) ==
    IF failAt \in date_columns THEN EmptyDict
    ELSE [column_name \in date_columns |->
            LET values == NonNullValues(tab, column_name)
            IN  IF values = <<>>
                THEN [score |-> 0, days_since_latest |-> 0, avg_age_days |-> 0]
                ELSE LET days_since_latest == LatestOf(values).age
                     IN  [score |-> batch_freshness_score(days_since_latest),
                          days_since_latest |-> days_since_latest,
                          avg_age_days |-> days_since_latest,
                          latest_date |-> LatestOf(values).chars,
                          oldest_date |-> OldestOf(values).chars]]

\* str(value) of the non-null values of a column.
StrValues(values) == [i \in 1..Len(values) |-> [chars |-> values[i].chars, n |-> values[i].n]]

_get_sample_data_for_patterns(tab, columns, fails) ==
    IF fails THEN EmptyDict
    ELSE LET sample_records == Take(tab, SampleSize)
         IN  [column_name \in columns |->
                LET values == StrValues(NonNullValues(sample_records, column_name))
                IN  Take(values, SampleKeep)]

_assess_consistency_from_sample(sample_values, column_name) ==
    IF sample_values = <<>>
    THEN [score |-> 0, pattern_violations |-> 0, total_checked |-> 0, violation_percentage |-> 0]
    ELSE LET total_checked == Count(sample_values)
             violations ==
                 IF NameHasDate(column_name) THEN _check_date_patterns(sample_values)
                 ELSE IF NameHasId(column_name) THEN _check_id_patterns(sample_values)
                 ELSE _check_general_patterns(sample_values)
         IN  [score |-> Percent(total_checked - violations, total_checked),
              pattern_violations |-> violations,
              total_checked |-> total_checked,
              violation_percentage |-> Percent(violations, total_checked)]

_assess_validity_from_sample(sample_values, column_name) ==
    IF sample_values = <<>>
    THEN [score |-> 0, invalid_count |-> 0, total_checked |-> 0, invalid_percentage |-> 0]
    ELSE LET total_checked == Count(sample_values)
             invalid_count ==
                 IF NameHasDate(column_name)
                 THEN Count(SelectSeq(sample_values, LAMBDA s : IsBlank(s.chars)))
                 ELSE IF NameHasId(column_name)
                      THEN Count(SelectSeq(sample_values,
                                           LAMBDA s : ~MatchesIdPattern(s.chars) \/ IsBlank(s.chars)))
                 ELSE Count(SelectSeq(sample_values,
                                      LAMBDA s : IsBlank(s.chars) \/ Len(s.chars) > MaxTextLen))
         IN  [score |-> Percent(total_checked - invalid_count, total_checked),
              invalid_count |-> invalid_count,
              total_checked |-> total_checked,
              invalid_percentage |-> Percent(invalid_count, total_checked)]

(***************************************************************************)
(* Column score of the deterministic path.                                 *)
(***************************************************************************)
\* The dimensions that are keys of a column dict and hold a dict with a 'score'.
ScoredDimensions(column_health) ==
    {d \in DimensionSet : d \in DOMAIN column_health /\ "score" \in DOMAIN column_health[d]}

\* A faulty variant: a column without a scored dimension has nothing wrong
\* and gets the full score.
_calculate_column_score_full_when_empty(column_health) ==
    LET present == ScoredDimensions(column_health)
        total_weight == SumOver(present, DIMENSION_WEIGHTS)
        weighted_sum == SumOver(present, [d \in present |-> column_health[d].score * DIMENSION_WEIGHTS[d]])
    IN  IF present = {} THEN 1000
        ELSE IF total_weight > 0 THEN RoundDiv(weighted_sum, total_weight) ELSE 0

_calculate_column_score(column_health) ==
    LET present == ScoredDimensions(column_health)
        total_weight == SumOver(present, DIMENSION_WEIGHTS)
        weighted_sum == SumOver(present, [d \in present |-> column_health[d].score * DIMENSION_WEIGHTS[d]])
    IN  IF present = {} THEN 0
        ELSE IF total_weight > 0 THEN RoundDiv(weighted_sum, total_weight) ELSE 0

(***************************************************************************)
(* Issues and the summary.  An issue text is kept as what it is about:     *)
(* its kind, the dimension and the number it quotes.                       *)
(***************************************************************************)
Issue(kind, dimension, value) == [kind |-> kind, dimension |-> dimension, value |-> value]

\* d.get(k, default)
Get(d, k, default) == IF k \in DOMAIN d THEN d[k] ELSE default


\* The issues of _generate_column_issues_and_recommendations.
_generate_column_issues_and_recommendations(column_health) ==
    LET Has(dimension) == dimension \in DOMAIN column_health
        null_pct == IF Has("completeness")
                    THEN Get(column_health["completeness"], "null_percentage", 0) ELSE 0
        dup_count == IF Has("uniqueness")
                     THEN Get(column_health["uniqueness"], "duplicate_count", 0) ELSE 0
        violations == IF Has("consistency")
                      THEN Get(column_health["consistency"], "pattern_violations", 0) ELSE 0
        invalid_count == IF Has("validity")
                         THEN Get(column_health["validity"], "invalid_count", 0) ELSE 0
        days_old == IF Has("timeliness")
                    THEN Get(column_health["timeliness"], "days_since_latest", 0) ELSE 0
    IN  (IF null_pct > 200 \/ null_pct > 50
         THEN <<Issue("missing", "completeness", null_pct)>> ELSE <<>>)
        \o (IF dup_count > 0 THEN <<Issue("duplicate", "uniqueness", dup_count)>> ELSE <<>>)
        \o (IF violations > 0 THEN <<Issue("format", "consistency", violations)>> ELSE <<>>)
        \o (IF invalid_count > 0 THEN <<Issue("invalid", "validity", invalid_count)>> ELSE <<>>)
        \o (IF days_old > 30 THEN <<Issue("old", "timeliness", days_old)>> ELSE <<>>)

\* all_issues[:5]
TopIssues == 5

\* A faulty variant: every column with a score under 60 gets 'high', critical
\* field or not.
RECURSIVE CollectedIssuesAllCritical(_, _, _)
CollectedIssuesAllCritical(column_analysis, columns, critical_fields) ==
    IF columns = <<>> THEN <<>>
    ELSE LET column_name == Head(columns)
             column_data == column_analysis[column_name]
             column_score == Get(column_data, "overall_column_score", 0)
             issues == Get(column_data, "issues", <<>>)
             severity == IF column_score < 600 THEN "high"
                         ELSE IF column_score < 700 THEN "medium"
                         ELSE "low"
         IN  [i \in 1..Len(issues) |->
                [severity |-> severity, column |-> column_name, issue |-> issues[i]]]
             \o CollectedIssuesAllCritical(column_analysis, Tail(columns), critical_fields)

\* all_issues before the sort: the issues of the columns in the order of
\* column_analysis, each tagged with the severity of its column.
RECURSIVE CollectedIssues(_, _, _)
CollectedIssues(column_analysis, columns, critical_fields) ==
    IF columns = <<>> THEN <<>>
    ELSE LET column_name == Head(columns)
             column_data == column_analysis[column_name]
             column_score == Get(column_data, "overall_column_score", 0)
             is_critical == column_name \in critical_fields
             issues == Get(column_data, "issues", <<>>)
             severity == IF is_critical /\ column_score < 600 THEN "high"
                         ELSE IF column_score < 700 THEN "medium"
                         ELSE "low"
         IN  [i \in 1..Len(issues) |->
                [severity |-> severity, column |-> column_name, issue |-> issues[i]]]
             \o CollectedIssues(column_analysis, Tail(columns), critical_fields)

\* A faulty variant: the issues stay in the order of the columns.
SortBySeverityOmitted(all_issues) == all_issues

\* all_issues.sort(key=severity_order): a stable sort on three keys.
SortBySeverity(all_issues) ==
    SelectSeq(all_issues, LAMBDA x : x.severity = "high")
    \o SelectSeq(all_issues, LAMBDA x : x.severity = "medium")
    \o SelectSeq(all_issues, LAMBDA x : x.severity = "low")
    \o SelectSeq(all_issues, LAMBDA x : x.severity \notin {"high", "medium", "low"})

\* all_issues[:3] of a severity
FirstThree(list) == SubSeq(list, 1, Min(Len(list), 3))

\* immediate and short_term of _generate_recommendations: "Fix <issue> in
\* <column>" for the first three high issues, "Address <issue> in <column>"
\* for the first three medium ones, or the default entry of the list.  The
\* long_term list, found by searching the issue texts, is left out.
_generate_recommendations(issues) ==
    LET high_severity_issues == SelectSeq(issues, LAMBDA x : x.severity = "high")
        medium_issues == SelectSeq(issues, LAMBDA x : x.severity = "medium")
        immediate ==
            [i \in 1..Len(FirstThree(high_severity_issues)) |->
                [action |-> "Fix", issue |-> high_severity_issues[i].issue,
                 column |-> high_severity_issues[i].column]]
        short_term ==
            [i \in 1..Len(FirstThree(medium_issues)) |->
                [action |-> "Address", issue |-> medium_issues[i].issue,
                 column |-> medium_issues[i].column]]
    IN  [immediate |-> IF immediate # <<>> THEN immediate
                       ELSE <<[action |-> "No immediate actions required"]>>,
         short_term |-> IF short_term # <<>> THEN short_term
                        ELSE <<[action |-> "Monitor data quality trends"]>>]

\* columns: the keys of column_analysis in their order.
_generate_summary(column_analysis, columns, schema_type) ==
    LET critical_fields == Get(CRITICAL_FIELDS, schema_type, {})
        ScoreOf(c) == Get(column_analysis[c], "overall_column_score", 0)
        critical_columns == SelectSeq(columns, LAMBDA c : c \in critical_fields)
        critical_scores == [i \in 1..Len(critical_columns) |-> ScoreOf(critical_columns[i])]
        all_issues == SortBySeverity(CollectedIssues(column_analysis, columns, critical_fields))
    IN  [critical_fields |->
            [total |-> Cardinality(critical_fields),
             healthy |-> Len(SelectSeq(critical_scores, LAMBDA x : x >= 800)),
             warning |-> Len(SelectSeq(critical_scores, LAMBDA x : x < 800 /\ x >= 600)),
             critical |-> Len(SelectSeq(critical_scores, LAMBDA x : x < 600)),
             avg_score |-> IF critical_scores # <<>>
                           THEN RoundDiv(SumSeq(critical_scores), Len(critical_scores)) ELSE 0],
         top_issues |-> SubSeq(all_issues, 1, Min(Len(all_issues), TopIssues)),
         recommendations |-> _generate_recommendations(all_issues)]

(***************************************************************************)
(* Report assembly.                                                        *)
(***************************************************************************)
\* The scores of one dimension over the columns that carry it, as a sequence
\* in column order (overall_scores[dimension] of assess_data_health).
ColumnScoresOf(column_analysis, columns, dimension) ==
    LET carries(c) ==
            /\ dimension \in DOMAIN column_analysis[c]
            /\ "score" \in DOMAIN column_analysis[c][dimension]
        cols == SelectSeq(columns, carries)
    IN  [i \in 1..Len(cols) |-> column_analysis[cols[i]][dimension].score]

_calculate_overall_dimensions(overall_scores) ==
    [dimension \in DimensionSet |->
        LET scores == overall_scores[dimension]
        IN  [score |-> IF scores # <<>> THEN RoundDiv(SumSeq(scores), Len(scores)) ELSE 0,
             weight |-> DIMENSION_WEIGHTS[dimension]]]

\* The weighted overall score as the exact quotient num / den (in tenths);
\* 0.0 when den is 0.
_calculate_weighted_score(dimensions) ==
    [num |-> SumOver(DOMAIN dimensions, [d \in DOMAIN dimensions |-> dimensions[d].score * dimensions[d].weight]),
     den |-> SumOver(DOMAIN dimensions, [d \in DOMAIN dimensions |-> dimensions[d].weight])]

\* score >= threshold for score = q.num / q.den in tenths.
AtLeast(q, threshold) ==
    IF q.den > 0 THEN q.num >= 10 * threshold * q.den ELSE 0 >= threshold

\* A faulty variant: the thresholds are exclusive.
_get_health_grade_exclusive(score) ==
    IF ~AtLeast(score, 85) \/ score.num = 10 * 85 * score.den
    THEN IF ~AtLeast(score, 70) \/ score.num = 10 * 70 * score.den
         THEN IF ~AtLeast(score, 50) \/ score.num = 10 * 50 * score.den THEN "Bad" ELSE "Poor"
         ELSE "Good"
    ELSE "Excellent"

_get_health_grade(score) ==
    IF AtLeast(score, 85) THEN "Excellent"
    ELSE IF AtLeast(score, 70) THEN "Good"
    ELSE IF AtLeast(score, 50) THEN "Poor"
    ELSE "Bad"

\* round(overall_score, 1), in tenths.
RoundScore(q) == IF q.den > 0 THEN RoundDiv(q.num, q.den) ELSE 0

\* A faulty variant: the grade of the empty report is the grade of score 0.
_empty_health_report_graded(schema_type) ==
    [schema_type |-> schema_type,
     total_records |-> 0,
     overall_health |->
        [score |-> 0,
         grade |-> _get_health_grade([num |-> 0, den |-> 1]),
         dimensions |->
            [completeness |-> [score |-> 0, weight |-> 25],
             uniqueness |-> [score |-> 0, weight |-> 10],
             consistency |-> [score |-> 0, weight |-> 20],
             validity |-> [score |-> 0, weight |-> 20],
             timeliness |-> [score |-> 0, weight |-> 25]]],
     column_analysis |-> EmptyDict,
     summary |->
        [critical_fields |-> [total |-> 0, healthy |-> 0, warning |-> 0, critical |-> 0,
                              avg_score |-> 0],
         top_issues |-> <<>>]]

_empty_health_report(schema_type) ==
    [schema_type |-> schema_type,
     total_records |-> 0,
     overall_health |->
        [score |-> 0,
         grade |-> "N/A",
         dimensions |->
            [completeness |-> [score |-> 0, weight |-> 25],
             uniqueness |-> [score |-> 0, weight |-> 10],
             consistency |-> [score |-> 0, weight |-> 20],
             validity |-> [score |-> 0, weight |-> 20],
             timeliness |-> [score |-> 0, weight |-> 25]]],
     column_analysis |-> EmptyDict,
     summary |->
        [critical_fields |-> [total |-> 0, healthy |-> 0, warning |-> 0, critical |-> 0,
                              avg_score |-> 0],
         top_issues |-> <<>>]]

(***************************************************************************)
(* The deterministic path.  fault names the one query that raises during   *)
(* the request: [dim, col], dim "sample" for the sample fetch, "none" for  *)
(* a request without a failing query; ConnectionLost: every query after    *)
(* the record count raises.                                                *)
(***************************************************************************)
NoFault == [dim |-> "none", col |-> "none", kind |-> "none"]

ConnectionLost == [dim |-> "connection", col |-> "none", kind |-> "raise"]

\* The column of a batch whose query raises: the first one when the
\* connection is lost.
FailAt(fault, dimension, columns) ==
    IF fault.dim = dimension THEN fault.col
    ELSE IF fault = ConnectionLost /\ columns # {}
         THEN AnalysisColumns[CHOOSE i \in 1..Len(AnalysisColumns) :
                                /\ AnalysisColumns[i] \in columns
                                /\ \A j \in 1..(i - 1) : AnalysisColumns[j] \notin columns]
    ELSE "none"

_assess_all_columns_optimized(tab, columns, schema_type, total_records, fault) ==
    LET critical_fields == CRITICAL_FIELDS[schema_type]
        column_set == {columns[i] : i \in 1..Len(columns)}
        completeness_stats ==
            _get_batch_completeness_stats(tab, column_set, total_records,
                                          FailAt(fault, "completeness", column_set))
        id_columns == {c \in column_set : _should_assess_uniqueness(c)}
        uniqueness_stats ==
            _get_batch_uniqueness_stats(tab, id_columns, total_records,
                                        FailAt(fault, "uniqueness", id_columns))
        date_columns == {c \in column_set : _is_date_column(c)}
        timeliness_stats ==
            _get_batch_timeliness_stats(tab, date_columns, FailAt(fault, "timeliness", date_columns))
        sample_data == _get_sample_data_for_patterns(tab, column_set,
                                                     fault.dim = "sample" \/ fault = ConnectionLost)
        Part(stats, column_name, dimension) ==
            IF column_name \in DOMAIN stats THEN dimension :> stats[column_name] ELSE EmptyDict
        Health(column_name) ==
            [data_type |-> ColumnType[column_name],
             is_critical |-> column_name \in critical_fields,
             overall_column_score |-> 0,
             issues |-> <<>>]
            @@ Part(completeness_stats, column_name, "completeness")
            @@ Part(uniqueness_stats, column_name, "uniqueness")
            @@ Part(timeliness_stats, column_name, "timeliness")
            @@ (IF column_name \in DOMAIN sample_data
                THEN [consistency |-> _assess_consistency_from_sample(sample_data[column_name], column_name),
                      validity |-> _assess_validity_from_sample(sample_data[column_name], column_name)]
                ELSE EmptyDict)
    IN  [column_name \in column_set |->
            [Health(column_name) EXCEPT
                !["overall_column_score"] = _calculate_column_score(Health(column_name)),
                !["issues"] = _generate_column_issues_and_recommendations(Health(column_name))]]

\* The report of assess_data_health for a recognized schema type with records.
DeterministicReport(tab, schema_type, total_records, fault) ==
    LET column_analysis ==
            _assess_all_columns_optimized(tab, AnalysisColumns, schema_type, total_records, fault)
        overall_scores ==
            [dimension \in DimensionSet |-> ColumnScoresOf(column_analysis, AnalysisColumns, dimension)]
        overall_dimensions == _calculate_overall_dimensions(overall_scores)
        overall_score == _calculate_weighted_score(overall_dimensions)
    IN  [schema_type |-> schema_type,
         total_records |-> total_records,
         overall_health |->
            [score |-> RoundScore(overall_score),
             grade |-> _get_health_grade(overall_score),
             dimensions |-> overall_dimensions],
         column_analysis |-> column_analysis,
         summary |-> _generate_summary(column_analysis, AnalysisColumns, schema_type)]

\* db.query(model_class).count(): within the bounds only the ei_tech table
\* receives records.
RecordsOf(tab, schema_type) == IF schema_type = "ei_tech" THEN tab ELSE <<>>

\* What a request did besides computing its result.
Trace(session, scorer_queries, llm_calls) ==
    [session_opened |-> session, scorer_queries |-> scorer_queries, llm_calls |-> llm_calls]

\* A faulty variant of the validation: the session is opened before the
\* schema type is looked up.
UnknownSchemaTypeAfterSession(path, schema_type) ==
    [kind |-> "raised", path |-> path, error |-> "ValueError",
     schema_type |-> schema_type, trace |-> Trace(TRUE, 0, 0)]

\* raise ValueError(f"Unknown schema type: {schema_type}"), the first
\* statement of both handlers that can leave them: no session, no query and
\* no selector call precede it.  The handler logs and re-raises.
UnknownSchemaType(path, schema_type) ==
    [kind |-> "raised", path |-> path, error |-> "ValueError",
     schema_type |-> schema_type, trace |-> Trace(FALSE, 0, 0)]

\* The scorer queries of a deterministic request: one per column and batch
\* up to the failing one, and the sample fetch.
BatchQueries(columns, failAt) ==
    IF failAt \in columns
    THEN Cardinality({i \in 1..Len(AnalysisColumns) :
                        /\ AnalysisColumns[i] \in columns
                        /\ \E j \in i..Len(AnalysisColumns) : AnalysisColumns[j] = failAt})
    ELSE Cardinality(columns)

\* The queries of the uniqueness batch: the distinct count and the non-null
\* count of each column, up to the distinct count that raises.
UniquenessQueries(columns, failAt) ==
    IF failAt \in columns
    THEN 2 * BatchQueries(columns, failAt) - 1
    ELSE 2 * Cardinality(columns)

DeterministicQueries(fault) ==
    BatchQueries(ColumnSet, FailAt(fault, "completeness", ColumnSet))
    + UniquenessQueries({c \in ColumnSet : _should_assess_uniqueness(c)},
                        FailAt(fault, "uniqueness", {c \in ColumnSet : _should_assess_uniqueness(c)}))
    + BatchQueries({c \in ColumnSet : _is_date_column(c)},
                   FailAt(fault, "timeliness", {c \in ColumnSet : _is_date_column(c)}))
    + 1

assess_data_health(tab, schema_type, fault) ==
    IF schema_type \notin MODEL_MAPPING
    THEN UnknownSchemaType("deterministic", schema_type)
    ELSE LET total_records == Count(RecordsOf(tab, schema_type))
         IN  IF total_records = 0
             THEN [kind |-> "report", path |-> "deterministic", fault |-> NoFault,
                   body |-> _empty_health_report(schema_type), trace |-> Trace(TRUE, 0, 0)]
             ELSE [kind |-> "report", path |-> "deterministic", fault |-> fault,
                   body |-> DeterministicReport(RecordsOf(tab, schema_type), schema_type, total_records, fault),
                   trace |-> Trace(TRUE, DeterministicQueries(fault), 0)]

\* The queries that can raise in a deterministic request.
DeterministicFaults ==
    {NoFault, ConnectionLost, [dim |-> "sample", col |-> "none", kind |-> "raise"]}
    \cup {[dim |-> "completeness", col |-> c, kind |-> "raise"] : c \in ColumnSet}
    \cup {[dim |-> "uniqueness", col |-> c, kind |-> "raise"] :
            c \in {x \in ColumnSet : _should_assess_uniqueness(x)}}
    \cup {[dim |-> "timeliness", col |-> c, kind |-> "raise"] :
            c \in {x \in ColumnSet : _is_date_column(x)}}

(***************************************************************************)
(* The dimension selector.  An LLM response is the outcome of the chat     *)
(* completion call: the call raises, the message content is None, or it is *)
(* a text; has_brace says whether the text holds a '{', parses whether the *)
(* slice from the first '{' to the last '}' is JSON, obj is the parsed     *)
(* object.                                                                 *)
(***************************************************************************)
Response(kind, has_brace, parses, obj) ==
    [kind |-> kind, has_brace |-> has_brace, parses |-> parses, obj |-> obj]


\* The elements of a list.
Elements(list) == {list[i] : i \in 1..Len(list)}

\* A faulty variant: the default selection leaves timeliness to the skipped
\* dimensions.
_get_default_dimensions_without_timeliness ==
    [dimensions_to_check |-> <<"completeness", "uniqueness", "consistency", "validity">>,
     dimensions_to_skip |-> <<"timeliness">>,
     reasoning |->
        [completeness |-> "Default check - all fields should have data",
         uniqueness |-> "Default check - assess uniqueness patterns",
         consistency |-> "Default check - validate data patterns",
         validity |-> "Default check - ensure data meets basic rules",
         timeliness |-> "Default check - assess data freshness"],
     priority |-> "medium"]

_get_default_dimensions ==
    [dimensions_to_check |-> <<"completeness", "uniqueness", "consistency", "validity", "timeliness">>,
     dimensions_to_skip |-> <<>>,
     reasoning |->
        [completeness |-> "Default check - all fields should have data",
         uniqueness |-> "Default check - assess uniqueness patterns",
         consistency |-> "Default check - validate data patterns",
         validity |-> "Default check - ensure data meets basic rules",
         timeliness |-> "Default check - assess data freshness"],
     priority |-> "medium"]

required_fields == {"dimensions_to_check", "dimensions_to_skip", "reasoning"}

\* The value returned, or the exception that leaves the function.
Returns(value) == [raised |-> FALSE, value |-> value]
Raises == [raised |-> TRUE, value |-> EmptyDict]

_parse_llm_response(llm_response) ==
    IF llm_response.kind = "content_none"
    THEN Raises                  \* None.find: AttributeError, not caught here
    ELSE IF llm_response.has_brace    \* start_idx != -1; end_idx is never -1
         THEN IF ~llm_response.parses
              THEN Returns(_get_default_dimensions)     \* JSONDecodeError
              ELSE IF \A field \in required_fields : field \in DOMAIN llm_response.obj
                   THEN Returns(llm_response.obj)
                   ELSE Returns(_get_default_dimensions)
         ELSE Returns(_get_default_dimensions)

\* A faulty variant: no handler around the call and the parse.
select_dimensions_without_handler(llm_response) ==
    IF llm_response.kind = "call_failure"
    THEN Raises
    ELSE _parse_llm_response(llm_response)

select_dimensions(llm_response) ==
    IF llm_response.kind = "call_failure"
    THEN Returns(_get_default_dimensions)
    ELSE IF _parse_llm_response(llm_response).raised
         THEN Returns(_get_default_dimensions)
         ELSE _parse_llm_response(llm_response)

\* The gather of a phase ("selection" or "assessment") raises an Exception.
GatherFault(phase) == [dim |-> "gather", col |-> phase, kind |-> "raise"]

\* One call of select_dimensions per column, each in its own try.
_sequential_batch_select_dimensions(llm_responses) ==
    [column_name \in DOMAIN llm_responses |->
        IF select_dimensions(llm_responses[column_name]).raised
        THEN _get_default_dimensions
        ELSE select_dimensions(llm_responses[column_name]).value]

\* A faulty variant: no sequential run; when the gather raises every column
\* gets the default selection.
batch_select_dimensions_without_rerun(llm_responses, fault) ==
    [column_name \in DOMAIN llm_responses |->
        IF fault = GatherFault("selection") \/ select_dimensions(llm_responses[column_name]).raised
        THEN _get_default_dimensions
        ELSE select_dimensions(llm_responses[column_name]).value]

\* asyncio.gather(..., return_exceptions=True) and the loop over its
\* results; the sequential run when the gather raises.
batch_select_dimensions(llm_responses, fault) ==
    IF fault = GatherFault("selection")
    THEN _sequential_batch_select_dimensions(llm_responses)
    ELSE [column_name \in DOMAIN llm_responses |->
            IF select_dimensions(llm_responses[column_name]).raised
            THEN _get_default_dimensions
            ELSE select_dimensions(llm_responses[column_name]).value]

\* The executions of the two phases of an LLM-guided request.
PhasesRun(fault) ==
    [selection |-> IF fault = GatherFault("selection")
                   THEN <<"parallel", "sequential">> ELSE <<"parallel">>,
     assessment |-> IF fault = GatherFault("assessment")
                    THEN <<"parallel", "sequential">> ELSE <<"parallel">>]

(***************************************************************************)
(* The per-column scorers of the LLM-guided path.  raises says that the    *)
(* scorer's query raises; the scorer's own handler then returns its        *)
(* failure result.                                                         *)
(***************************************************************************)
_assess_completeness(tab, column_name, total_records, raises) ==
    IF raises
    THEN [score |-> 0, null_count |-> total_records, non_null_count |-> 0, null_percentage |-> 1000]
    ELSE LET null_count == Count(tab) - Count(NonNullValues(tab, column_name))
             non_null_count == total_records - null_count
         IN  [score |-> IF total_records > 0 THEN Percent(non_null_count, total_records) ELSE 0,
              null_count |-> null_count,
              non_null_count |-> non_null_count,
              null_percentage |-> IF total_records > 0 THEN Percent(null_count, total_records) ELSE 0]

_assess_uniqueness(tab, column_name, total_records, raises) ==
    IF raises
    THEN [score |-> 0, unique_count |-> 0, duplicate_count |-> total_records,
          total_non_null |-> total_records]
    ELSE LET unique_count == DistinctCount(NonNullValues(tab, column_name))
             non_null_count == Count(NonNullValues(tab, column_name))
         IN  [score |-> IF non_null_count = 0 THEN 0 ELSE Percent(unique_count, non_null_count),
              unique_count |-> unique_count,
              duplicate_count |-> IF non_null_count = 0 THEN 0 ELSE non_null_count - unique_count,
              total_non_null |-> non_null_count]

_assess_consistency(tab, column_name, raises) ==
    LET non_null == NonNullValues(tab, column_name)
        \* limit(1000) without ORDER BY: the tables of this model hold fewer
        \* non-null values, so every order of the rows gives the same values
        sample_values == StrValues(Take(non_null, ConsistencyLimit))
        total_checked == Count(sample_values)
        violations ==
            IF NameHasDate(column_name) THEN _check_date_patterns(sample_values)
            ELSE IF NameHasId(column_name) THEN _check_id_patterns(sample_values)
            ELSE _check_general_patterns(sample_values)
    IN  IF raises \/ sample_values = <<>>
        THEN [score |-> 0, pattern_violations |-> 0, total_checked |-> 0]
        ELSE [score |-> Percent(total_checked - violations, total_checked),
              pattern_violations |-> violations,
              total_checked |-> total_checked,
              violation_percentage |-> Percent(violations, total_checked)]

\* Rows with a date after today or before 1900-01-01; comparing a column that
\* is no date with a date raises, and the bare except returns 0.
_check_date_validity(tab, column_name) ==
    IF _is_date_column(column_name)
    THEN Count(SelectSeq(NonNullValues(tab, column_name), LAMBDA v : v.age < 0))
         + Count(SelectSeq(NonNullValues(tab, column_name), LAMBDA v : v.age > DaysSince1900))
    ELSE 0

\* Rows with length(trim(column)) < 1; on a date column the query raises and
\* the bare except returns 0.  Shared by _check_id_validity and
\* _check_categorical_validity, whose queries are the same.
BlankCount(tab, column_name) ==
    IF _is_date_column(column_name) THEN 0
    ELSE Count(SelectSeq(NonNullValues(tab, column_name), LAMBDA v : IsBlank(v.chars)))

_check_id_validity(tab, column_name) == BlankCount(tab, column_name)

\* A faulty variant: the rows whose value is NULL are counted as invalid too.
_check_categorical_validity_with_nulls(tab, column_name) ==
    BlankCount(tab, column_name) + (Count(tab) - Count(NonNullValues(tab, column_name)))

_check_categorical_validity(tab, column_name) == BlankCount(tab, column_name)

\* column_info['type'] is a KeyError for the column_info the LLM-guided path
\* passes ({"data_type": ...}); the bare except returns 0.
_check_general_validity(tab, column_name, column_info) ==
    IF "type" \notin DOMAIN column_info THEN 0
    ELSE IF \/ Contains(Lower(column_info["type"]), <<"v","a","r","c","h","a","r">>)
            \/ Contains(Lower(column_info["type"]), <<"t","e","x","t">>)
         THEN BlankCount(tab, column_name)
         ELSE 0

_assess_validity(tab, column_name, column_info, raises) ==
    LET total_checked == Count(NonNullValues(tab, column_name))
        invalid_count ==
            IF NameHasDate(column_name) THEN _check_date_validity(tab, column_name)
            ELSE IF NameHasId(column_name) THEN _check_id_validity(tab, column_name)
            ELSE IF column_name \in {"status", "region", "branch"}
                 THEN _check_categorical_validity(tab, column_name)
            ELSE _check_general_validity(tab, column_name, column_info)
    IN  IF raises \/ total_checked = 0
        THEN [score |-> 0, invalid_count |-> 0, total_checked |-> 0]
        ELSE [score |-> Percent(total_checked - invalid_count, total_checked),
              invalid_count |-> invalid_count,
              total_checked |-> total_checked,
              invalid_percentage |-> Percent(invalid_count, total_checked)]

\* A ladder whose boundaries fall on the worse side.
freshness_score_exclusive(days_since_latest) ==
    IF days_since_latest < 30 THEN 1000
    ELSE IF days_since_latest < 60 THEN 850
    ELSE IF days_since_latest < 90 THEN 700
    ELSE IF days_since_latest < 180 THEN 500
    ELSE 250

\* The freshness ladder of _assess_timeliness.
freshness_score(days_since_latest) ==
    IF days_since_latest <= 30 THEN 1000
    ELSE IF days_since_latest <= 60 THEN 850
    ELSE IF days_since_latest <= 90 THEN 700
    ELSE IF days_since_latest <= 180 THEN 500
    ELSE 250

\* On a column that holds no dates, current_date - latest_date is a TypeError
\* and the handler returns the failure result.
_assess_timeliness(tab, column_name, raises) ==
    LET values == NonNullValues(tab, column_name)
    IN  IF raises \/ values = <<>> \/ \E i \in 1..Len(values) : values[i].kind # "date"
        THEN [score |-> 0, days_since_latest |-> 0, avg_age_days |-> 0]
        ELSE LET days_since_latest == LatestOf(values).age
             IN  [score |-> freshness_score(days_since_latest),
                  days_since_latest |-> days_since_latest,
                  avg_age_days |-> days_since_latest,
                  latest_date |-> LatestOf(values).chars,
                  oldest_date |-> OldestOf(values).chars]

(***************************************************************************)
(* The LLM-guided path.  fault names the one thing that goes wrong in the  *)
(* request: the scorer of [dim, col] raises in its query (kind "raise") or *)
(* does not return within the 30 seconds of future.result (kind            *)
(* "timeout"), or executor.submit raises for column col (dim "submit").    *)
(***************************************************************************)
OutcomeOf(fault, column_name, dimension) ==
    IF fault.col = column_name /\ fault.dim = dimension THEN fault.kind ELSE "ok"

\* The keys of a column dict whose value is no dict.
NonDictKeys ==
    {"dimensions_checked", "dimensions_skipped", "priority", "error", "overall_column_score",
     "issues", "recommendations", "data_type", "is_critical"}

\* dimension in column_result and isinstance(column_result[dimension], dict)
HoldsDict(column_result, dimension) ==
    dimension \in DOMAIN column_result /\ dimension \notin NonDictKeys

\* A faulty variant: the weights are not normalized over the checked
\* dimensions, they stay shares of 100.
_calculate_column_score_llm_guided_unnormalized(column_result, dimensions_checked) ==
    LET terms ==
            [i \in 1..Len(dimensions_checked) |->
                LET dimension == dimensions_checked[i]
                IN  IF HoldsDict(column_result, dimension) /\ dimension \in DOMAIN DIMENSION_WEIGHTS
                    THEN Get(column_result[dimension], "score", 0) * DIMENSION_WEIGHTS[dimension]
                    ELSE 0]
    IN  IF dimensions_checked = <<>> THEN 0
        ELSE RoundDiv(SumSeq(terms), 100)

_calculate_column_score_llm_guided(column_result, dimensions_checked) ==
    LET active_weights == {dim \in Elements(dimensions_checked) : dim \in DOMAIN DIMENSION_WEIGHTS}
        total_weight == SumOver(active_weights, DIMENSION_WEIGHTS)
        \* score * normalized_weights.get(dimension, 0) / 100, times total_weight
        terms ==
            [i \in 1..Len(dimensions_checked) |->
                LET dimension == dimensions_checked[i]
                IN  IF HoldsDict(column_result, dimension) /\ dimension \in active_weights
                    THEN Get(column_result[dimension], "score", 0) * DIMENSION_WEIGHTS[dimension]
                    ELSE 0]
    IN  IF dimensions_checked = <<>> THEN 0
        ELSE IF active_weights = {} THEN 0
        ELSE RoundDiv(SumSeq(terms), total_weight)

\* The dimension tasks submitted to the executor, one per canonical dimension
\* listed in dimensions_to_check.
SubmittedDimensions(dimensions_to_check) ==
    {d \in DimensionSet : d \in Elements(dimensions_to_check)}

\* What the scorer of one dimension returns.
ScorerResult(tab, column_name, dimension, total_records, raises) ==
    LET column_info == [data_type |-> ColumnType[column_name]]
    IN  CASE dimension = "completeness" -> _assess_completeness(tab, column_name, total_records, raises)
          [] dimension = "uniqueness" -> _assess_uniqueness(tab, column_name, total_records, raises)
          [] dimension = "consistency" -> _assess_consistency(tab, column_name, raises)
          [] dimension = "validity" -> _assess_validity(tab, column_name, column_info, raises)
          [] dimension = "timeliness" -> _assess_timeliness(tab, column_name, raises)

\* The issues of _generate_column_issues_and_recommendations_llm.
_generate_column_issues_and_recommendations_llm(column_result, dimension_selection) ==
    LET priority == Get(dimension_selection, "priority", "medium")
        dimensions_checked == Get(column_result, "dimensions_checked", <<>>)
        IssuesOf(dimension) ==
            IF HoldsDict(column_result, dimension)
            THEN LET score == Get(column_result[dimension], "score", 0)
                 IN  IF score < 700
                     THEN IF priority = "critical" THEN <<Issue("critical", dimension, 0)>>
                          ELSE IF score < 500 THEN <<Issue("poor", dimension, score)>>
                          ELSE <<Issue("moderate", dimension, score)>>
                     ELSE <<>>
            ELSE <<>>
        RECURSIVE Collect(_)
        Collect(list) == IF list = <<>> THEN <<>> ELSE IssuesOf(Head(list)) \o Collect(Tail(list))
        issues == Collect(dimensions_checked)
    IN  IF issues = <<>> THEN <<Issue("none", "none", 0)>> ELSE issues

ErrorColumn == [error |-> "Assessment failed", dimensions_checked |-> <<>>, overall_column_score |-> 0]

_assess_single_column_with_llm_guidance(tab, column_name, dimension_selection, total_records, fault) ==
    LET dimensions_to_check == Get(dimension_selection, "dimensions_to_check", <<>>)
        column_result ==
            [dimensions_checked |-> dimensions_to_check,
             dimensions_skipped |-> Get(dimension_selection, "dimensions_to_skip", <<>>),
             llm_reasoning |-> Get(dimension_selection, "reasoning", EmptyDict),
             priority |-> Get(dimension_selection, "priority", "medium")]
        dimension_tasks == SubmittedDimensions(dimensions_to_check)
        \* future.result(timeout=30), or the placeholder of its handler
        collected ==
            [dimension \in dimension_tasks |->
                IF OutcomeOf(fault, column_name, dimension) = "timeout"
                THEN [score |-> 0, error |-> "TimeoutError"]
                ELSE ScorerResult(tab, column_name, dimension, total_records,
                                  OutcomeOf(fault, column_name, dimension) = "raise")]
        with_results == column_result @@ collected
    IN  IF OutcomeOf(fault, column_name, "submit") = "raise" /\ dimension_tasks # {}
        THEN ErrorColumn
        ELSE with_results @@
             [overall_column_score |->
                _calculate_column_score_llm_guided(with_results, dimensions_to_check),
              issues |->
                _generate_column_issues_and_recommendations_llm(with_results, dimension_selection)]

\* One column after the other, each in its own try.
_sequential_assess_columns_with_llm_guidance(tab, columns, dimension_selections, total_records, fault) ==
    [column_name \in Elements(columns) |->
        _assess_single_column_with_llm_guidance(
            tab, column_name,
            Get(dimension_selections, column_name, _get_default_dimensions),
            total_records, fault)]

_assess_columns_with_llm_guidance(tab, columns, dimension_selections, total_records, fault) ==
    IF fault = GatherFault("assessment")
    THEN _sequential_assess_columns_with_llm_guidance(tab, columns, dimension_selections,
                                                      total_records, fault)
    ELSE [column_name \in Elements(columns) |->
            _assess_single_column_with_llm_guidance(
                tab, column_name,
                Get(dimension_selections, column_name, _get_default_dimensions),
                total_records, fault)]

\* The scores a dimension collected over the columns, in column order and,
\* within a column, once for each time dimensions_checked lists it.
RECURSIVE CheckedScores(_, _, _)
CheckedScores(column_analysis, columns, dimension) ==
    IF columns = <<>> THEN <<>>
    ELSE LET column_data == column_analysis[Head(columns)]
             listed == SelectSeq(Get(column_data, "dimensions_checked", <<>>),
                                 LAMBDA d : d = dimension)
             own == IF /\ "dimensions_checked" \in DOMAIN column_data
                       /\ HoldsDict(column_data, dimension)
                       /\ "score" \in DOMAIN column_data[dimension]
                    THEN [i \in 1..Len(listed) |-> column_data[dimension].score]
                    ELSE <<>>
         IN  own \o CheckedScores(column_analysis, Tail(columns), dimension)

\* Every name some column lists in dimensions_checked.
ListedDimensions(column_analysis) ==
    UNION {Elements(Get(column_analysis[c], "dimensions_checked", <<>>)) : c \in DOMAIN column_analysis}

_calculate_llm_guided_overall_scores(column_analysis, columns) ==
    LET scored == {d \in ListedDimensions(column_analysis) :
                      CheckedScores(column_analysis, columns, d) # <<>>}
    IN  [dimension \in scored |->
            LET scores == CheckedScores(column_analysis, columns, dimension)
            IN  [score |-> RoundDiv(SumSeq(scores), Len(scores)),
                 weight |-> Get(DIMENSION_WEIGHTS, dimension, 0),
                 columns_assessed |-> Len(scores)]]

\* _analyze_dimension_optimization.  With no column in dimension_selections
\* the division raises ZeroDivisionError, which no handler of the summary
\* catches.  The percentage is in tenths.
_analyze_dimension_optimization(dimension_selections) ==
    LET total_possible_checks == Cardinality(DOMAIN dimension_selections) * 5
        total_actual_checks ==
            SumOver(DOMAIN dimension_selections,
                    [c \in DOMAIN dimension_selections |->
                        Len(Get(dimension_selections[c], "dimensions_to_check", <<>>))])
    IN  IF total_possible_checks = 0
        THEN [raised |-> "ZeroDivisionError"]
        ELSE [total_possible_checks |-> total_possible_checks,
              total_actual_checks |-> total_actual_checks,
              checks_skipped |-> total_possible_checks - total_actual_checks,
              optimization_percentage |->
                  RoundDiv((total_possible_checks - total_actual_checks) * 1000,
                           total_possible_checks)]

\* llm_recommendations of _enhance_recommendations_with_llm_context, added to
\* the recommendations of the basic summary.
_enhance_recommendations_with_llm_context(basic_recommendations, columns, dimension_selections) ==
    LET critical_columns ==
            SelectSeq(columns, LAMBDA col :
                /\ col \in DOMAIN dimension_selections
                /\ Get(dimension_selections[col], "priority", "none") = "critical")
        optimization_analysis == _analyze_dimension_optimization(dimension_selections)
    IN  [immediate |-> basic_recommendations.immediate,
         short_term |-> basic_recommendations.short_term,
         llm_recommendations |->
            (IF critical_columns # <<>>
             THEN <<[action |-> "Focus", columns |-> critical_columns]>> ELSE <<>>)
            \o (IF optimization_analysis.optimization_percentage > 200
                THEN <<[action |-> "Optimization",
                        percentage |-> optimization_analysis.optimization_percentage]>>
                ELSE <<>>)]

\* The basic summary with the enhanced recommendations and the dimension
\* optimization of llm_insights; the ZeroDivisionError of the optimization
\* leaves the summary.
_generate_llm_enhanced_summary(column_analysis, columns, schema_type, dimension_selections) ==
    LET basic_summary == _generate_summary(column_analysis, columns, schema_type)
    IN  IF "raised" \in DOMAIN _analyze_dimension_optimization(dimension_selections)
        THEN _analyze_dimension_optimization(dimension_selections)
        ELSE [critical_fields |-> basic_summary.critical_fields,
              top_issues |-> basic_summary.top_issues,
              recommendations |->
                  _enhance_recommendations_with_llm_context(basic_summary.recommendations,
                                                            columns, dimension_selections),
              llm_insights |->
                  [dimension_optimization |-> _analyze_dimension_optimization(dimension_selections)]]

\* The report of assess_data_health_llm for a recognized schema type with records.
LLMReport(tab, schema_type, total_records, dimension_selections, fault) ==
    LET column_analysis ==
            _assess_columns_with_llm_guidance(tab, AnalysisColumns, dimension_selections,
                                              total_records, fault)
        overall_scores == _calculate_llm_guided_overall_scores(column_analysis, AnalysisColumns)
        overall_score == _calculate_weighted_score(overall_scores)
    IN  [schema_type |-> schema_type,
         total_records |-> total_records,
         assessment_type |-> "llm_enhanced",
         overall_health |->
            [score |-> RoundScore(overall_score),
             grade |-> _get_health_grade(overall_score),
             dimensions |-> overall_scores],
         column_analysis |-> column_analysis,
         summary |-> _generate_llm_enhanced_summary(column_analysis, AnalysisColumns, schema_type,
                                                    dimension_selections),
         llm_insights |->
            [total_columns_analyzed |-> Len(AnalysisColumns),
             dimension_selections_made |-> Cardinality(DOMAIN dimension_selections)]]

\* The dimension tasks an LLM-guided request submits.
LLMScorerTasks(dimension_selections) ==
    SumOver(DOMAIN dimension_selections,
            [c \in DOMAIN dimension_selections |->
                Cardinality(SubmittedDimensions(Get(dimension_selections[c], "dimensions_to_check", <<>>)))])

assess_data_health_llm(tab, schema_type, llm_responses, fault) ==
    IF schema_type \notin MODEL_MAPPING
    THEN UnknownSchemaType("llm", schema_type)
    ELSE LET total_records == Count(RecordsOf(tab, schema_type))
             dimension_selections == batch_select_dimensions(llm_responses, fault)
         IN  IF total_records = 0
             THEN [kind |-> "report", path |-> "llm", fault |-> NoFault,
                   body |-> _empty_health_report(schema_type), trace |-> Trace(TRUE, 0, 0)]
             ELSE [kind |-> "report", path |-> "llm", fault |-> fault,
                   llm_responses |-> llm_responses,
                   selector_raised |->
                      {c \in DOMAIN llm_responses : select_dimensions(llm_responses[c]).raised},
                   dimension_selections |-> dimension_selections,
                   phases |-> PhasesRun(fault),
                   body |-> LLMReport(RecordsOf(tab, schema_type), schema_type, total_records,
                                      dimension_selections, fault),
                   \* the calls of a failed dispatch are counted as made
                   trace |-> Trace(TRUE,
                                   LLMScorerTasks(dimension_selections) * Len(PhasesRun(fault).assessment),
                                   Cardinality(DOMAIN llm_responses) * Len(PhasesRun(fault).selection))]

(***************************************************************************)
(* The inputs of an LLM-guided request.                                    *)
(***************************************************************************)
\* The sub-list of the five dimensions that lie in S, and the rest.
Listing(S) == SelectSeq(Dimensions, LAMBDA d : d \in S)

AllReasons == [d \in DimensionSet |-> "reason"]

\* A complete answer that checks the dimensions of S and skips the others.
SelectionOf(S) ==
    [dimensions_to_check |-> Listing(S),
     dimensions_to_skip |-> Listing(DimensionSet \ S),
     reasoning |-> AllReasons,
     priority |-> "high"]

CallFailure == Response("call_failure", FALSE, FALSE, EmptyDict)

LLMResponses ==
    {CallFailure,
     Response("content_none", FALSE, FALSE, EmptyDict),
     \* a text without a brace, and one with a brace that is no JSON
     Response("text", FALSE, FALSE, EmptyDict),
     Response("text", TRUE, FALSE, EmptyDict),
     \* JSON without 'reasoning'
     Response("text", TRUE, TRUE,
              [dimensions_to_check |-> <<"completeness">>, dimensions_to_skip |-> <<>>]),
     \* JSON with the three required fields only, deciding one dimension
     Response("text", TRUE, TRUE,
              [dimensions_to_check |-> <<"completeness">>, dimensions_to_skip |-> <<>>,
               reasoning |-> EmptyDict]),
     \* a list that repeats a dimension, and one with an unknown name
     Response("text", TRUE, TRUE,
              [dimensions_to_check |-> <<"completeness", "completeness">>,
               dimensions_to_skip |-> <<"uniqueness", "consistency", "validity", "timeliness">>,
               reasoning |-> AllReasons, priority |-> "low"]),
     Response("text", TRUE, TRUE,
              [dimensions_to_check |-> <<"accuracy">>,
               dimensions_to_skip |-> Dimensions,
               reasoning |-> AllReasons, priority |-> "critical"])}
    \cup {Response("text", TRUE, TRUE, SelectionOf(S)) : S \in SUBSET DimensionSet}

\* One column gets any response; the call fails for the others.
ResponsesWith(column_name, response) ==
    [c \in ColumnSet |-> IF c = column_name THEN response ELSE CallFailure]

\* What can go wrong while column_name is assessed.
LLMFaults(column_name) ==
    {NoFault, GatherFault("selection"), GatherFault("assessment"),
     [dim |-> "submit", col |-> column_name, kind |-> "raise"]}
    \cup {[dim |-> d, col |-> column_name, kind |-> k] : d \in DimensionSet, k \in {"raise", "timeout"}}

(***************************************************************************)
(* The state machine: writers change the table between requests; a request *)
(* is assessed and its result returned to the caller.                      *)
(***************************************************************************)
NoReport == [kind |-> "none"]

\* No phase is in progress: requests are taken as a whole.
NoPhase ==
    /\ coroutines = <<>>
    /\ calls = <<>>
    /\ semaphore = 0
    /\ loop_thread = "idle"

Init ==
    /\ table = <<>>
    /\ report = NoReport
    /\ NoPhase

InsertRecord ==
    /\ report = NoReport
    /\ Len(table) < MaxRecords
    /\ \E r \in RecordPool : table' = Append(table, Rows(r, 1))
    /\ UNCHANGED <<report, sched>>

\* A bulk load fills the empty table.
BulkLoad ==
    /\ report = NoReport
    /\ table = <<>>
    /\ \E r \in RecordPool : table' = <<Rows(r, BulkRows)>>
    /\ UNCHANGED <<report, sched>>

DeleteRecord ==
    /\ report = NoReport
    /\ \E i \in 1..Len(table) :
          table' = SubSeq(table, 1, i - 1) \o SubSeq(table, i + 1, Len(table))
    /\ UNCHANGED <<report, sched>>

AssessDataHealth ==
    /\ report = NoReport
    /\ \E schema_type \in SchemaTypeInputs, fault \in DeterministicFaults :
          \E scan_start \in ScanStarts(RecordsOf(table, schema_type)) :
             report' = assess_data_health(ScanFrom(table, scan_start), schema_type, fault)
                          @@ [scan_start |-> scan_start]
    /\ UNCHANGED <<table, sched>>

AssessDataHealthLLM ==
    /\ report = NoReport
    /\ \E schema_type \in SchemaTypeInputs, column_name \in ColumnSet, response \in LLMResponses :
          \E fault \in LLMFaults(column_name) :
             report' = assess_data_health_llm(table, schema_type,
                                              ResponsesWith(column_name, response), fault)
                          @@ [scan_start |-> 1]
    /\ UNCHANGED <<table, sched>>

\* The caller takes the result.
ReturnToCaller ==
    /\ report # NoReport
    /\ report' = NoReport
    /\ UNCHANGED <<table, sched>>

Next ==
    \/ InsertRecord
    \/ BulkLoad
    \/ DeleteRecord
    \/ AssessDataHealth
    \/ AssessDataHealthLLM
    \/ ReturnToCaller

Spec == Init /\ [][Next]_vars

(***************************************************************************)
(* The properties.  They are stated over the result a request holds before *)
(* it is returned to the caller; the table does not change while a result  *)
(* is held, so a property may compare the result with what another         *)
(* operation computes on the same data.                                    *)
(***************************************************************************)
\* A report was returned (the request did not raise).
Returned == report.kind = "report"

\* The dimension results attached to a column dict.
ResultsOf(column) == DimensionSet \cap DOMAIN column

\* The records the held request counted, in the order its scan returned them.
Assessed == RecordsOf(ScanFrom(table, report.scan_start), report.body.schema_type)

FellBack(response) ==
    \/ response.kind # "text"
    \/ ~response.has_brace
    \/ ~response.parses
    \/ ~({"dimensions_to_check", "dimensions_to_skip", "reasoning"} \subseteq DOMAIN response.obj)

\* An LLM-guided report over records in which every selector call fell back.
SelectorFailedEverywhere ==
    /\ Returned
    /\ report.path = "llm"
    /\ report.body.total_records > 0
    /\ \A c \in DOMAIN report.llm_responses : FellBack(report.llm_responses[c])

\* The dimensions the deterministic path checks for a column on the data of
\* the held report, no query failing.
DeterministicChecked(c) ==
    ResultsOf(_assess_all_columns_optimized(Assessed, AnalysisColumns, report.body.schema_type,
                                            Count(Assessed), NoFault)[c])

Unfaulted ==
    IF report.path = "deterministic"
    THEN _assess_all_columns_optimized(Assessed, AnalysisColumns, report.body.schema_type,
                                       Count(Assessed), NoFault)
    ELSE _assess_columns_with_llm_guidance(Assessed, AnalysisColumns, report.dimension_selections,
                                           Count(Assessed), NoFault)

\* The scorer of dimension fault.dim ran for column fault.col and failed.
ScorerFailed ==
    /\ Returned
    /\ report.fault.dim \in DimensionSet
    /\ report.path = "llm" =>
          report.fault.dim \in Elements(report.dimension_selections[report.fault.col].dimensions_to_check)

\* C3 as claimed: when the scorer of one dimension for one column fails, the
\* column gets a score-0 placeholder result for that dimension and the
\* results of all other columns and dimensions are those of the request
\* without the failure, in the deterministic path as in the LLM-guided one.
C3_AsClaimed ==
    ScorerFailed =>
        /\ report.fault.dim \in DOMAIN report.body.column_analysis[report.fault.col]
        /\ report.body.column_analysis[report.fault.col][report.fault.dim].score = 0
        /\ \A c \in DOMAIN report.body.column_analysis : \A d \in DimensionSet :
              (c # report.fault.col \/ d # report.fault.dim) =>
                 /\ (d \in DOMAIN report.body.column_analysis[c]) = (d \in DOMAIN Unfaulted[c])
                 /\ d \in DOMAIN Unfaulted[c] =>
                       report.body.column_analysis[c][d] = Unfaulted[c][d]

\* An exception was raised while one column was assessed and no scorer
\* turned it into a result of that column: executor.submit raised in the
\* LLM-guided path, a query of the column raised in a deterministic batch.
ColumnRaised ==
    /\ Returned
    /\ report.fault.kind = "raise"
    /\ \/ /\ report.path = "llm"
          /\ report.fault.dim = "submit"
          /\ SubmittedDimensions(
                report.dimension_selections[report.fault.col].dimensions_to_check) # {}
       \/ /\ report.path = "deterministic"
          /\ report.fault.dim \in DimensionSet

\* C4 as claimed: in both paths the column is recorded with an error marker
\* and overall_column_score 0, every other column has its normal result and
\* the report is produced.
C4_AsClaimed ==
    ColumnRaised =>
        /\ "error" \in DOMAIN report.body.column_analysis[report.fault.col]
        /\ report.body.column_analysis[report.fault.col].overall_column_score = 0
        /\ \A c \in DOMAIN report.body.column_analysis :
              c # report.fault.col => report.body.column_analysis[c] = Unfaulted[c]
        /\ "overall_health" \in DOMAIN report.body

\* An LLM-guided report over records: the selector was called for the columns.
SelectorCalled ==
    /\ Returned
    /\ report.path = "llm"
    /\ report.body.total_records > 0

\* C5: select_dimensions never raises; for a call failure, an answer that is
\* no JSON or JSON without a field the parser requires it returns the fixed
\* default selection (all five dimensions to check, none skipped, priority
\* medium), and otherwise the parsed selection.
C5_SelectorNeverRaises ==
    SelectorCalled =>
        /\ report.selector_raised = {}
        /\ \A c \in DOMAIN report.llm_responses :
              IF FellBack(report.llm_responses[c])
              THEN /\ report.dimension_selections[c].dimensions_to_check
                        = <<"completeness", "uniqueness", "consistency", "validity", "timeliness">>
                   /\ report.dimension_selections[c].dimensions_to_skip = <<>>
                   /\ report.dimension_selections[c].priority = "medium"
              ELSE report.dimension_selections[c] = report.llm_responses[c].obj

\* A report for which one call returned a message without content (the
\* parser raises on it) and the column got the default selection.
C5_Witness ==
    /\ SelectorCalled
    /\ \E c \in DOMAIN report.llm_responses :
          /\ report.llm_responses[c].kind = "content_none"
          /\ Len(report.dimension_selections[c].dimensions_to_check) = 5

\* C6 as claimed: every selection the selector returned decides each of the
\* five dimensions, carries a priority and has a reasoning entry for each
\* dimension it decides.
C6_AsClaimed ==
    SelectorCalled =>
        \A c \in DOMAIN report.dimension_selections :
            LET selection == report.dimension_selections[c]
                decided == Elements(selection.dimensions_to_check)
                              \cup Elements(selection.dimensions_to_skip)
            IN  /\ DimensionSet \subseteq decided
                /\ "priority" \in DOMAIN selection
                /\ \A d \in decided : d \in DOMAIN selection.reasoning

\* The set S a column's score is computed over: the dimensions present in
\* the deterministic path, dimensions_to_check in the LLM-guided one.
ScoredOver(column) ==
    IF report.path = "deterministic"
    THEN ResultsOf(column)
    ELSE Elements(column.dimensions_checked)

\* dimensions_to_check names a subset of the five dimensions, each once.
ListsSubset(column) ==
    report.path = "llm" =>
        /\ Elements(column.dimensions_checked) \subseteq DimensionSet
        /\ Cardinality(Elements(column.dimensions_checked)) = Len(column.dimensions_checked)

\* sum(weight[d] * score[d] for d in S) / sum(weight[d] for d in S), rounded
\* to one decimal, with the fixed weights.
RenormalizedScore(column, S) ==
    LET weight == [completeness |-> 25, uniqueness |-> 10, consistency |-> 20,
                   validity |-> 20, timeliness |-> 25]
    IN  RoundDiv(SumOver(S, [d \in S |-> weight[d] * column[d].score]), SumOver(S, weight))

RequestedSchema ==
    IF report.kind = "raised" THEN report.schema_type ELSE report.body.schema_type

\* C8: for a recognized schema type with zero records both handlers return,
\* without running a scorer or calling the LLM, a report with total_records
\* 0, score 0, grade "N/A", all five dimension scores 0 and an empty
\* column_analysis.
C8_EmptySchemaReport ==
    (/\ report.kind # "none"
     /\ RequestedSchema \in {"ei_tech", "srs", "ni_tct", "ni_tct_augmented"}
     /\ RecordsOf(table, RequestedSchema) = <<>>) =>
        /\ Returned
        /\ report.body.total_records = 0
        /\ report.body.overall_health.score = 0
        /\ report.body.overall_health.grade = "N/A"
        /\ DOMAIN report.body.overall_health.dimensions = DimensionSet
        /\ \A d \in DimensionSet : report.body.overall_health.dimensions[d].score = 0
        /\ report.body.column_analysis = <<>>
        /\ report.trace.scorer_queries = 0
        /\ report.trace.llm_calls = 0

\* The LLM-guided handler returned for a schema without records while
\* another schema's table holds records.
C8_Witness ==
    /\ Returned
    /\ report.path = "llm"
    /\ report.body.schema_type = "srs"
    /\ report.body.total_records = 0
    /\ table # <<>>

\* C9: both handlers raise for a schema_type outside ei_tech, srs, ni_tct,
\* ni_tct_augmented, before a database session is opened, data is queried or
\* the LLM is called.
C9_UnknownSchemaRaises ==
    (/\ report.kind # "none"
     /\ RequestedSchema \notin {"ei_tech", "srs", "ni_tct", "ni_tct_augmented"}) =>
        /\ report.kind = "raised"
        /\ report.error = "ValueError"
        /\ ~report.trace.session_opened
        /\ report.trace.scorer_queries = 0
        /\ report.trace.llm_calls = 0

\* The LLM-guided handler raised for an unknown schema type while the
\* tables hold records.
C9_Witness ==
    /\ report.kind = "raised"
    /\ report.path = "llm"
    /\ report.schema_type = "legacy"
    /\ table # <<>>

\* C10 as claimed: every completeness result in every report has
\* null_count + non_null_count equal to the report's total_records.
C10_AsClaimed ==
    Returned =>
        \A c \in DOMAIN report.body.column_analysis :
            "completeness" \in DOMAIN report.body.column_analysis[c] =>
                LET result == report.body.column_analysis[c].completeness
                IN  /\ {"null_count", "non_null_count"} \subseteq DOMAIN result
                    /\ result.null_count + result.non_null_count = report.body.total_records

\* C11 as claimed: every uniqueness result in every report has
\* unique_count + duplicate_count equal to total_non_null.
C11_AsClaimed ==
    Returned =>
        \A c \in DOMAIN report.body.column_analysis :
            "uniqueness" \in DOMAIN report.body.column_analysis[c] =>
                LET result == report.body.column_analysis[c].uniqueness
                IN  /\ {"unique_count", "duplicate_count", "total_non_null"} \subseteq DOMAIN result
                    /\ result.unique_count + result.duplicate_count = result.total_non_null


\* The held report is a deterministic report over records, no query failing.
DeterministicOverRecords ==
    /\ Returned
    /\ report.path = "deterministic"
    /\ report.body.total_records > 0
    /\ report.fault = NoFault

\* The overall score of a second deterministic request for the schema of the
\* held report on the same table, its sample scan starting at row scan_start.
SecondRunScore(scan_start) ==
    assess_data_health(ScanFrom(table, scan_start), report.body.schema_type,
                       NoFault).body.overall_health.score

\* The overall score of a second LLM-guided request with the selector answers
\* of the held report on the same table.
SecondRunScoreLLM ==
    assess_data_health_llm(table, report.body.schema_type, report.llm_responses,
                           NoFault).body.overall_health.score

\* C12 as claimed: a second assess_data_health request on the unchanged
\* table yields the overall_health.score of the first, whatever rows the
\* sample query returns; the same for assess_data_health_llm when the
\* selector falls back to the default for every column.
C12_AsClaimed ==
    /\ DeterministicOverRecords =>
          \A scan_start \in ScanStarts(table) :
             SecondRunScore(scan_start) = report.body.overall_health.score
    /\ (SelectorFailedEverywhere /\ report.fault = NoFault) =>
          SecondRunScoreLLM = report.body.overall_health.score


\* C13: in every report, a column for which no dimension result is present
\* (deterministic path) or whose dimensions_checked lists no dimension of
\* DIMENSION_WEIGHTS (LLM-guided path, the empty list included) has
\* overall_column_score 0; the request returns a report and the column
\* carries no error marker.
C13_NoDimensionsScoreZero ==
    Returned =>
        \A c \in DOMAIN report.body.column_analysis :
            LET column == report.body.column_analysis[c]
            IN  /\ (report.path = "deterministic" /\ ResultsOf(column) = {}) =>
                      column.overall_column_score = 0
                /\ (/\ report.path = "llm"
                    /\ Elements(report.dimension_selections[c].dimensions_to_check)
                          \cap DimensionSet = {}) =>
                      /\ column.overall_column_score = 0
                      /\ "error" \notin DOMAIN column

\* An LLM-guided report over records in which a column was told to check
\* one dimension only, and not one of the five.
C13_Witness ==
    /\ Returned
    /\ report.path = "llm"
    /\ report.body.total_records > 0
    /\ \E c \in DOMAIN report.body.column_analysis :
          /\ Len(report.dimension_selections[c].dimensions_to_check) = 1
          /\ Elements(report.dimension_selections[c].dimensions_to_check) \cap DimensionSet = {}
          /\ report.body.column_analysis[c].overall_column_score = 0

\* A deterministic report over records with a column that carries no
\* dimension result.
C13_DeterministicCase ==
    /\ Returned
    /\ report.path = "deterministic"
    /\ report.body.total_records > 0
    /\ \E c \in DOMAIN report.body.column_analysis : ResultsOf(report.body.column_analysis[c]) = {}


(***************************************************************************)
(* The grade function on its own: a call of _get_health_grade with any     *)
(* score from 0 to 100, in steps of 0.1 and, around the thresholds, in     *)
(* steps of 0.001 (a weighted score is a sum of products of one-decimal    *)
(* scores and weights, divided by a total weight of up to 100).            *)
(***************************************************************************)
\* The largest score, in tenths.
MaxScore == 1000

\* How far around a threshold the finer scores reach, in thousandths.
NearThreshold == 20

ScoreInputs ==
    {[num |-> n, den |-> 1] : n \in 0..MaxScore}
    \cup {[num |-> 1000 * t + k, den |-> 100] :
            t \in {50, 70, 85}, k \in (0 - NearThreshold)..NearThreshold}

GradeInit ==
    /\ table = <<>>
    /\ NoPhase
    /\ report \in {[kind |-> "score", score |-> q] : q \in ScoreInputs}

GetHealthGrade ==
    /\ report.kind = "score"
    /\ report' = [kind |-> "grade", score |-> report.score,
                  grade |-> _get_health_grade(report.score)]
    /\ UNCHANGED <<table, sched>>

GradeNext == GetHealthGrade

GradeSpec == GradeInit /\ [][GradeNext]_vars

\* Bad < Poor < Good < Excellent
GradeRank == [Bad |-> 1, Poor |-> 2, Good |-> 3, Excellent |-> 4]

\* score >= threshold, for a score num / den in tenths.
ScoreAtLeast(q, threshold) == q.num >= 10 * threshold * q.den

ScoreLess(q1, q2) == q1.num * q2.den < q2.num * q1.den

AllIssues ==
    CollectedIssues(report.body.column_analysis, AnalysisColumns,
                    Get(CRITICAL_FIELDS, report.body.schema_type, {}))

SeverityRank == [high |-> 0, medium |-> 1, low |-> 2]

\* How many entries of a list of tagged issues are equal to x.
Occurrences(list, x) == Cardinality({i \in 1..Len(list) : list[i] = x})

\* How many entries of a list of tagged issues have a severity of S.
WithSeverity(list, S) == Cardinality({i \in 1..Len(list) : list[i].severity \in S})

\* C15: summary.top_issues of every report over records has at most 5
\* entries, each an issue of a column as often at most as the columns have
\* it, ordered high, medium, low; it holds a medium issue only if it holds
\* every high issue of the columns, and a low one only if it holds every
\* high and medium issue; and it is shorter than 5 only if it holds every
\* issue.
C15_TopIssuesPrefix ==
    (Returned /\ report.body.total_records > 0) =>
        LET top_issues == report.body.summary.top_issues
        IN  /\ Len(top_issues) <= 5
            /\ \A i \in 1..Len(top_issues) :
                  Occurrences(top_issues, top_issues[i]) <= Occurrences(AllIssues, top_issues[i])
            /\ \A i, j \in 1..Len(top_issues) :
                  i < j => SeverityRank[top_issues[i].severity] <= SeverityRank[top_issues[j].severity]
            /\ WithSeverity(top_issues, {"medium", "low"}) > 0 =>
                  WithSeverity(top_issues, {"high"}) = WithSeverity(AllIssues, {"high"})
            /\ WithSeverity(top_issues, {"low"}) > 0 =>
                  WithSeverity(top_issues, {"high", "medium"}) = WithSeverity(AllIssues, {"high", "medium"})
            /\ Len(top_issues) < 5 => Len(top_issues) = Len(AllIssues)

\* A report whose columns have more than 5 issues, a low one of an earlier
\* column and a high one of a later column among them.
C15_Witness ==
    /\ Returned
    /\ report.body.total_records > 0
    /\ Len(AllIssues) > 5
    /\ \E i, j \in 1..Len(AllIssues) :
          i < j /\ AllIssues[i].severity = "low" /\ AllIssues[j].severity = "high"
    /\ report.body.summary.top_issues[1].severity = "high"


\* An LLM-guided report over records.
LLMOverRecords ==
    /\ Returned
    /\ report.path = "llm"
    /\ report.body.total_records > 0

\* What one call of select_dimensions gives for a column of the held request.
SelectedAlone(c) ==
    IF FellBack(report.llm_responses[c]) THEN _get_default_dimensions
    ELSE report.llm_responses[c].obj

\* What one call of _assess_single_column_with_llm_guidance gives for a
\* column of the held request.
AssessedAlone(c) ==
    _assess_single_column_with_llm_guidance(Assessed, c, report.dimension_selections[c],
                                            Count(Assessed), report.fault)

C16_AssessmentCase ==
    /\ LLMOverRecords
    /\ report.fault = GatherFault("assessment")
    /\ report.phases.assessment = <<"parallel", "sequential">>


(***************************************************************************)
(* The assessment phase of an LLM-guided request, step by step.  gather    *)
(* wraps one coroutine per column into a task; the event loop runs the     *)
(* tasks in the order of their creation, each on the thread of the loop    *)
(* until it awaits or returns.  _assess_single_column_with_llm_guidance    *)
(* awaits nothing: it submits its dimension calls to a thread pool of its  *)
(* own and blocks in future.result and in the exit of the with block.  A   *)
(* dimension call runs on a worker thread; it returns, raises, or does     *)
(* neither.  Scores are left out: a collected dimension is a "result" or a *)
(* "placeholder".                                                          *)
(***************************************************************************)
\* The keys of dimension_tasks of a column, in the order of submission.
TaskChoices == {<<>>, <<"completeness">>, <<"uniqueness", "timeliness">>}

AssessInit ==
    /\ table = <<>>
    /\ report = NoReport
    /\ semaphore = 0
    /\ loop_thread = "idle"
    /\ coroutines \in [ColumnSet ->
                          {[pc |-> "created", dimension_tasks |-> t, next |-> 1,
                            column_result |-> EmptyDict, scored_over |-> {}] : t \in TaskChoices}]
    /\ calls = [c \in ColumnSet |-> [d \in DimensionSet |-> "none"]]

\* The first task of the gather that has not run yet.
FirstCreated(c) ==
    /\ coroutines[c].pc = "created"
    /\ \A i, j \in 1..Len(AnalysisColumns) :
          (AnalysisColumns[j] = c /\ i < j) => coroutines[AnalysisColumns[i]].pc # "created"

\* The event loop runs a task when no other task holds its thread.
CanStart(c) == loop_thread = "idle" /\ FirstCreated(c)

\* The coroutine of a column starts and submits its dimension calls.
StartColumn(c) ==
    /\ CanStart(c)
    /\ loop_thread' = c
    /\ coroutines' = [coroutines EXCEPT
                        ![c].pc = IF coroutines[c].dimension_tasks = <<>> THEN "exit" ELSE "collect"]
    /\ calls' = [calls EXCEPT
                   ![c] = [d \in DimensionSet |->
                              IF d \in Elements(coroutines[c].dimension_tasks)
                              THEN "running" ELSE "none"]]
    /\ UNCHANGED <<table, report, semaphore>>

\* A dimension call returns on its worker thread.
QueryReturns(c, d) ==
    /\ calls[c][d] = "running"
    /\ calls' = [calls EXCEPT ![c][d] = "returned"]
    /\ UNCHANGED <<table, report, coroutines, semaphore, loop_thread>>

\* A dimension call raises on its worker thread.
QueryRaises(c, d) ==
    /\ calls[c][d] = "running"
    /\ calls' = [calls EXCEPT ![c][d] = "raised"]
    /\ UNCHANGED <<table, report, coroutines, semaphore, loop_thread>>

\* The dimension whose future the coroutine of c waits for.
Awaited(c) == coroutines[c].dimension_tasks[coroutines[c].next]

\* A faulty variant: the loop over the futures ends after the first one.
CollectedFirstOnly(c, outcome) ==
    [coroutines EXCEPT
        ![c].column_result = (Awaited(c) :> outcome) @@ coroutines[c].column_result,
        ![c].next = coroutines[c].next + 1,
        ![c].pc = "exit"]

\* The coroutine after future.result of the awaited dimension ended with
\* outcome.
Collected(c, outcome) ==
    [coroutines EXCEPT
        ![c].column_result = (Awaited(c) :> outcome) @@ coroutines[c].column_result,
        ![c].next = coroutines[c].next + 1,
        ![c].pc = IF coroutines[c].next = Len(coroutines[c].dimension_tasks)
                  THEN "exit" ELSE "collect"]

\* future.result(timeout=30) returns the result of the call, or the call's
\* exception is replaced by the placeholder.
CollectResult(c) ==
    /\ loop_thread = c
    /\ coroutines[c].pc = "collect"
    /\ calls[c][Awaited(c)] \in {"returned", "raised"}
    /\ coroutines' = Collected(c, IF calls[c][Awaited(c)] = "returned"
                                  THEN "result" ELSE "placeholder")
    /\ UNCHANGED <<table, report, calls, semaphore, loop_thread>>

\* future.result(timeout=30) raises TimeoutError: the call has not ended
\* after 30 seconds; the placeholder takes its place and the call goes on.
ResultTimeout(c) ==
    /\ loop_thread = c
    /\ coroutines[c].pc = "collect"
    /\ calls[c][Awaited(c)] = "running"
    /\ coroutines' = Collected(c, "placeholder")
    /\ UNCHANGED <<table, report, calls, semaphore, loop_thread>>

\* The exit of "with ThreadPoolExecutor(...)": shutdown(wait=True) joins the
\* worker threads.
ExitExecutor(c) ==
    /\ loop_thread = c
    /\ coroutines[c].pc = "exit"
    /\ \A d \in DimensionSet : calls[c][d] # "running"
    /\ coroutines' = [coroutines EXCEPT ![c].pc = "score"]
    /\ UNCHANGED <<table, report, calls, semaphore, loop_thread>>

\* overall_column_score and the issues are computed and the coroutine
\* returns.
ScoreColumn(c) ==
    /\ loop_thread = c
    /\ coroutines[c].pc = "score"
    /\ coroutines' = [coroutines EXCEPT
                        ![c].pc = "done",
                        ![c].scored_over = DOMAIN coroutines[c].column_result]
    /\ loop_thread' = "idle"
    /\ UNCHANGED <<table, report, calls, semaphore>>

\* The gather returns the results of all columns.
GatherColumns ==
    /\ report = NoReport
    /\ \A c \in ColumnSet : coroutines[c].pc = "done"
    /\ report' = [kind |-> "column_analysis",
                  column_analysis |-> [c \in ColumnSet |-> coroutines[c].column_result]]
    /\ UNCHANGED <<table, sched>>

\* The steps of the thread of the event loop.
LoopSteps ==
    \/ \E c \in ColumnSet : StartColumn(c)
    \/ \E c \in ColumnSet : CollectResult(c)
    \/ \E c \in ColumnSet : ResultTimeout(c)
    \/ \E c \in ColumnSet : ExitExecutor(c)
    \/ \E c \in ColumnSet : ScoreColumn(c)
    \/ GatherColumns

AssessNext ==
    \/ LoopSteps
    \/ \E c \in ColumnSet, d \in DimensionSet : QueryReturns(c, d)
    \/ \E c \in ColumnSet, d \in DimensionSet : QueryRaises(c, d)

AssessSpec == AssessInit /\ [][AssessNext]_vars

\* The thread of the event loop keeps running, and 30 seconds pass; a query
\* need not ever return.
FairAssessSpec == AssessSpec /\ WF_vars(LoopSteps)

\* The coroutine of a column is blocked on a dimension call that has not
\* ended: in future.result or in the exit of the with block.
WaitsForQuery(c) ==
    /\ loop_thread = c
    /\ \/ coroutines[c].pc = "collect" /\ calls[c][Awaited(c)] = "running"
       \/ coroutines[c].pc = "exit" /\ \E d \in DimensionSet : calls[c][d] = "running"

\* C17 as claimed: while the coroutine of one column waits for a dimension
\* call that has not ended, the assessment of the next column can start.
C17_AsClaimed ==
    \A a, b \in ColumnSet :
        (WaitsForQuery(a) /\ FirstCreated(b)) => CanStart(b)

\* A dimension call of c was replaced by the placeholder after the timeout
\* and has not ended.
TimedOut(c) ==
    \E d \in DOMAIN coroutines[c].column_result :
        coroutines[c].column_result[d] = "placeholder" /\ calls[c][d] = "running"

\* C18 as claimed: once a dimension call of a column was replaced by the
\* placeholder at the timeout, the column is completed, and so is the
\* assessment of all columns, whether or not the call ever returns.
C18_AsClaimed ==
    \A c \in ColumnSet :
        TimedOut(c) ~> (coroutines[c].pc = "done" /\ <>(report # NoReport))


\* The columns a deterministic request assesses, the ID-like and the
\* date-typed ones among them.
AssessableColumns == DOMAIN report.body.column_analysis
IdLikeColumns == {c \in AssessableColumns : _should_assess_uniqueness(c)}
DateTypedColumns == {c \in AssessableColumns : _is_date_column(c)}

\* C19 as claimed: a deterministic request over records in which no query
\* fails issues one query per column, one per ID-like column, one per
\* date-typed column and the sample fetch.
C19_AsClaimed ==
    DeterministicOverRecords =>
        report.trace.scorer_queries =
            Cardinality(AssessableColumns) + Cardinality(IdLikeColumns)
            + Cardinality(DateTypedColumns) + 1

\* What the code issues: two queries per ID-like column.
C19_TwoQueriesPerIdColumn ==
    DeterministicOverRecords =>
        report.trace.scorer_queries =
            Cardinality(AssessableColumns) + 2 * Cardinality(IdLikeColumns)
            + Cardinality(DateTypedColumns) + 1


(***************************************************************************)
(* The selection phase of an LLM-guided request, step by step.  gather     *)
(* wraps one coroutine process_column_with_semaphore per column into a     *)
(* task; each enters "async with semaphore", awaits select_dimensions,     *)
(* whose request to the LLM is then in flight, and leaves the with block   *)
(* when the call is answered or has failed.  asyncio.Semaphore serves its  *)
(* waiters in the order of their arrival.                                  *)
(***************************************************************************)
\* LLMDimensionSelector(max_concurrent_requests): fewer than the columns.
max_concurrent_requests == 2

SelectInit ==
    /\ table = <<>>
    /\ report = NoReport
    /\ calls = <<>>
    /\ loop_thread = "idle"
    /\ semaphore = max_concurrent_requests
    /\ coroutines = [c \in ColumnSet |-> [pc |-> "created", outcome |-> Raises]]

\* A faulty variant: the semaphore is never waited for.
SemaphoreIgnored == TRUE

\* Semaphore.acquire does not wait: its value is positive.
SemaphoreFree == semaphore > 0

\* async with semaphore: the coroutine takes the semaphore and issues its
\* request.
AcquireAndRequest(c) ==
    /\ FirstCreated(c)
    /\ SemaphoreFree
    /\ semaphore' = semaphore - 1
    /\ coroutines' = [coroutines EXCEPT ![c].pc = "in_flight"]
    /\ UNCHANGED <<table, report, calls, loop_thread>>

\* The request is answered or fails; select_dimensions returns and the
\* coroutine leaves the with block, which releases the semaphore.
AnswerAndRelease(c) ==
    /\ coroutines[c].pc = "in_flight"
    /\ \E response \in LLMResponses :
          coroutines' = [coroutines EXCEPT
                            ![c].pc = "answered",
                            ![c].outcome = select_dimensions(response)]
    /\ semaphore' = semaphore + 1
    /\ UNCHANGED <<table, report, calls, loop_thread>>

\* The gather returns and the results are put into the map.
GatherSelections ==
    /\ report = NoReport
    /\ \A c \in ColumnSet : coroutines[c].pc = "answered"
    /\ report' = [kind |-> "selections",
                  results |-> [c \in ColumnSet |->
                                  IF coroutines[c].outcome.raised
                                  THEN _get_default_dimensions
                                  ELSE coroutines[c].outcome.value]]
    /\ UNCHANGED <<table, sched>>

SelectNext ==
    \/ \E c \in ColumnSet : AcquireAndRequest(c)
    \/ \E c \in ColumnSet : AnswerAndRelease(c)
    \/ GatherSelections

SelectSpec == SelectInit /\ [][SelectNext]_vars

\* The event loop runs every task that can run, and every request to the
\* LLM ends: it is answered or the client gives it up.
FairSelectSpec ==
    /\ SelectSpec
    /\ \A c \in ColumnSet : WF_vars(AcquireAndRequest(c))
    /\ \A c \in ColumnSet : WF_vars(AnswerAndRelease(c))
    /\ WF_vars(GatherSelections)

\* The columns whose request is in flight.
InFlight == {c \in ColumnSet : coroutines[c].pc = "in_flight"}

\* C20: during batch_select_dimensions at most max_concurrent_requests
\* requests are in flight at a time; the request of every column is
\* issued and answered; and the result map, which is returned, has one
\* entry for each column and for nothing else, each a selection.
C20_BoundedConcurrency ==
    /\ [](Cardinality(InFlight) <= max_concurrent_requests)
    /\ [](report # NoReport =>
            /\ DOMAIN report.results = ColumnSet
            /\ \A c \in ColumnSet : "dimensions_to_check" \in DOMAIN report.results[c])
    /\ \A c \in ColumnSet : <>(coroutines[c].pc = "in_flight")
    /\ \A c \in ColumnSet : <>(coroutines[c].pc = "answered")
    /\ <>(report # NoReport)

\* As many requests are in flight as the semaphore admits and a column
\* waits for its turn.
C20_Witness ==
    /\ Cardinality(InFlight) = max_concurrent_requests
    /\ semaphore = 0
    /\ \E c \in ColumnSet : coroutines[c].pc = "created"


\* The score of column c has been computed.
Scored(c) == coroutines[c].pc = "done"

\* C21: when overall_column_score of a column is computed, every dimension
\* call submitted for the column has been collected, as a result or as a
\* placeholder, and the score is computed over all of them; after that the
\* dimension results of the column do not change.
C21_ScoreAfterAllCollected ==
    /\ [](\A c \in ColumnSet :
            Scored(c) =>
                /\ DOMAIN coroutines[c].column_result = Elements(coroutines[c].dimension_tasks)
                /\ coroutines[c].scored_over = Elements(coroutines[c].dimension_tasks)
                /\ \A d \in DOMAIN coroutines[c].column_result :
                      coroutines[c].column_result[d] \in {"result", "placeholder"})
    /\ [][\A c \in ColumnSet :
            Scored(c) => coroutines'[c].column_result = coroutines[c].column_result]_vars

\* A column with two dimension calls was scored, one call collected as a
\* result, the other replaced by the placeholder.
C21_Witness ==
    \E c \in ColumnSet :
        /\ Scored(c)
        /\ Len(coroutines[c].dimension_tasks) = 2
        /\ \E d, e \in DOMAIN coroutines[c].column_result :
              /\ coroutines[c].column_result[d] = "result"
              /\ coroutines[c].column_result[e] = "placeholder"


\* total_checked of a dimension result of a column, 0 when it has none.
TotalChecked(column, dimension) ==
    IF dimension \in DOMAIN column /\ dimension \notin NonDictKeys
    THEN Get(column[dimension], "total_checked", 0) ELSE 0

\* C22 as claimed: in every report of either handler the consistency result
\* of every column, and the validity result derived from the sample, has
\* total_checked of at most 100.
C22_AsClaimed ==
    Returned =>
        \A c \in DOMAIN report.body.column_analysis :
            /\ TotalChecked(report.body.column_analysis[c], "consistency") <= SampleKeep
            /\ report.path = "deterministic" =>
                  TotalChecked(report.body.column_analysis[c], "validity") <= SampleKeep

\* The deterministic path keeps to the bound.
C22_DeterministicBounded ==
    (Returned /\ report.path = "deterministic") =>
        \A c \in DOMAIN report.body.column_analysis :
            /\ TotalChecked(report.body.column_analysis[c], "consistency") <= SampleKeep
            /\ TotalChecked(report.body.column_analysis[c], "validity") <= SampleKeep

(***************************************************************************)
(* The two timeliness scorers applied to the same date column.  The inputs *)
(* are tables whose reported_date holds no row, NULL only, one date, or    *)
(* two dates; a date in the future has a negative age.                     *)
(***************************************************************************)
\* Largest age in days of a date of the inputs.
MaxDays == 200

\* Ages of the future dates of the inputs.
FutureDays == 2

DateRecord(a) ==
    [event_id |-> Null, region |-> Null,
     reported_date |-> DateCell(<<"2","0","2","6","-","0","1","-","0","1">>, a)]

NullDateRecord == [event_id |-> Null, region |-> Null, reported_date |-> Null]

DateInputs ==
    {<<>>, <<Rows(NullDateRecord, 1)>>}
    \cup {<<Rows(DateRecord(a), 1)>> : a \in (0 - FutureDays)..MaxDays}
    \cup {<<Rows(NullDateRecord, 1), Rows(DateRecord(a), 1), Rows(DateRecord(MaxDays), 1)>> :
            a \in {30, 31, 60, 61, 90, 91, 180, 181}}

TimelinessInit ==
    /\ table \in DateInputs
    /\ NoPhase
    /\ report = NoReport

ScoreTimeliness ==
    /\ report = NoReport
    /\ report' = [kind |-> "timeliness",
                  batch |-> _get_batch_timeliness_stats(table, {"reported_date"}, "none"),
                  column |-> _assess_timeliness(table, "reported_date", FALSE)]
    /\ UNCHANGED <<table, sched>>

TimelinessNext == ScoreTimeliness

TimelinessSpec == TimelinessInit /\ [][TimelinessNext]_vars

\* The ages of the non-null dates of the table.
DateAges == {table[i].row["reported_date"].age :
                i \in {j \in 1..Len(table) : table[j].row["reported_date"].kind = "date"}}

\* today - max(date)
DaysSinceLatest == CHOOSE a \in DateAges : \A b \in DateAges : a <= b

\* C23: the timeliness score is 100 for days_since_latest <= 30, 85 for <= 60,
\* 70 for <= 90, 50 for <= 180 and 25 beyond; a column without a non-null
\* date gets score 0, days_since_latest 0 and avg_age_days 0 and no error;
\* the batch scorer and the per-column scorer give the same result.
C23_FreshnessLadder ==
    report.kind = "timeliness" =>
        LET batch == report.batch["reported_date"]
        IN  /\ report.column = batch
            /\ "error" \notin DOMAIN batch
            /\ IF DateAges = {}
               THEN batch = [score |-> 0, days_since_latest |-> 0, avg_age_days |-> 0]
               ELSE /\ batch.days_since_latest = DaysSinceLatest
                    /\ batch.score = CASE DaysSinceLatest <= 30 -> 1000
                                       [] DaysSinceLatest > 30 /\ DaysSinceLatest <= 60 -> 850
                                       [] DaysSinceLatest > 60 /\ DaysSinceLatest <= 90 -> 700
                                       [] DaysSinceLatest > 90 /\ DaysSinceLatest <= 180 -> 500
                                       [] DaysSinceLatest > 180 -> 250

\* Both scorers have scored a column whose latest date is 30 days old, beside
\* an older date and a NULL.
C23_Witness ==
    /\ report.kind = "timeliness"
    /\ Len(table) = 3
    /\ DaysSinceLatest = 30
    /\ report.column.score = 1000
    /\ report.batch["reported_date"].score = 1000

\* Both scorers have scored a column without a non-null date.
C23_NoDateWitness ==
    /\ report.kind = "timeliness"
    /\ Len(table) = 1
    /\ DateAges = {}
    /\ report.column.score = 0

(***************************************************************************)
(* _generate_summary applied to a column_analysis of two columns.  Both    *)
(* are critical fields of ei_tech, region alone is one of ni_tct, and an   *)
(* unlisted schema type has no critical fields.                            *)
(***************************************************************************)
SummaryColumns == <<"event_id", "region">>

\* overall_column_score of the inputs, in tenths: the thresholds 60, 70 and
\* 80, the score just under each, and the ends of the range.
SummaryScores == {0, 599, 600, 699, 700, 799, 800, 1000}

\* The issues lists of the inputs.
SummaryIssues ==
    {<<>>,
     <<Issue("missing", "completeness", 40)>>,
     <<Issue("missing", "completeness", 40), Issue("invalid", "validity", 3)>>}

\* column_data: with a score and issues, or (an error entry without the
\* score key) with neither.
SummaryColumnData ==
    {[overall_column_score |-> x, issues |-> i] : x \in SummaryScores, i \in SummaryIssues}
    \cup {[error |-> "Assessment failed"]}

SummaryInit ==
    /\ table = <<>>
    /\ NoPhase
    /\ report \in {[kind |-> "analysis", schema_type |-> t,
                    column_analysis |-> [event_id |-> a, region |-> b]] :
                        t \in {"ei_tech", "ni_tct", "legacy"},
                        a \in SummaryColumnData, b \in SummaryColumnData}

GenerateSummary ==
    /\ report.kind = "analysis"
    /\ report' = [kind |-> "summary", schema_type |-> report.schema_type,
                  column_analysis |-> report.column_analysis,
                  summary |-> _generate_summary(report.column_analysis, SummaryColumns,
                                                report.schema_type)]
    /\ UNCHANGED <<table, sched>>

SummaryNext == GenerateSummary

SummarySpec == SummaryInit /\ [][SummaryNext]_vars

\* column_data.get('overall_column_score', 0) of a column of the summarized
\* column_analysis.
SummarizedScore(c) ==
    IF "overall_column_score" \in DOMAIN report.column_analysis[c]
    THEN report.column_analysis[c].overall_column_score ELSE 0

\* The column is a critical field of the schema type of the summarized report.
SummarizedCritical(c) ==
    /\ report.schema_type \in DOMAIN CRITICAL_FIELDS
    /\ c \in CRITICAL_FIELDS[report.schema_type]

\* The number of issues of a column of the summarized column_analysis.
SummarizedIssueCount(c) ==
    IF "issues" \in DOMAIN report.column_analysis[c]
    THEN Len(report.column_analysis[c].issues) ELSE 0

SummarizedCriticalColumns == {c \in {"event_id", "region"} : SummarizedCritical(c)}

\* C24: every issue collected by _generate_summary is tagged high exactly
\* when its column is a critical field with a score under 60, otherwise medium
\* exactly when the score is under 70, otherwise low; and every critical
\* field of column_analysis is counted once, as healthy from 80, as warning
\* from 60 to under 80, as critical under 60.
C24_SeverityAndCriticalCounts ==
    report.kind = "summary" =>
        LET top_issues == report.summary.top_issues
            counts == report.summary.critical_fields
        IN  /\ \A c \in {"event_id", "region"} :
                  Cardinality({i \in 1..Len(top_issues) : top_issues[i].column = c})
                      = SummarizedIssueCount(c)
            /\ \A i \in 1..Len(top_issues) :
                  LET c == top_issues[i].column
                  IN  /\ top_issues[i].severity = "high"
                            <=> (SummarizedCritical(c) /\ SummarizedScore(c) < 600)
                      /\ top_issues[i].severity = "medium"
                            <=> (~(SummarizedCritical(c) /\ SummarizedScore(c) < 600)
                                 /\ SummarizedScore(c) < 700)
                      /\ top_issues[i].severity = "low"
                            <=> (~(SummarizedCritical(c) /\ SummarizedScore(c) < 600)
                                 /\ SummarizedScore(c) >= 700)
            /\ counts.healthy
                  = Cardinality({c \in SummarizedCriticalColumns : SummarizedScore(c) >= 800})
            /\ counts.warning
                  = Cardinality({c \in SummarizedCriticalColumns :
                                    SummarizedScore(c) >= 600 /\ SummarizedScore(c) < 800})
            /\ counts.critical
                  = Cardinality({c \in SummarizedCriticalColumns : SummarizedScore(c) < 600})
            /\ counts.healthy + counts.warning + counts.critical
                  = Cardinality(SummarizedCriticalColumns)

\* A summary of a column that is not a critical field with a score under 60,
\* whose issues are medium, beside a critical field at exactly 60, counted
\* as warning, whose issue is medium too.
C24_Witness ==
    /\ report.kind = "summary"
    /\ report.schema_type = "ni_tct"
    /\ SummarizedScore("event_id") = 599
    /\ SummarizedScore("region") = 600
    /\ SummarizedIssueCount("event_id") = 2
    /\ SummarizedIssueCount("region") = 1
    /\ report.summary.critical_fields.warning = 1
    /\ \A i \in 1..Len(report.summary.top_issues) :
          report.summary.top_issues[i].severity = "medium"

\* A summary with a high issue: a critical field with a score under 60.
C24_HighWitness ==
    /\ report.kind = "summary"
    /\ report.schema_type = "ei_tech"
    /\ SummarizedScore("region") = 599
    /\ \E i \in 1..Len(report.summary.top_issues) :
          /\ report.summary.top_issues[i].column = "region"
          /\ report.summary.top_issues[i].severity = "high"

(***************************************************************************)
(* _analyze_dimension_optimization applied to a selection map.  The map    *)
(* has the columns the semantic configuration lists for the schema (none,  *)
(* some or all of the three); a selection is what _parse_llm_response let  *)
(* through, which checks the three keys and not the entries of the lists.  *)
(***************************************************************************)
\* dimensions_to_check of the inputs: empty, one name, the five names, and
\* the five names with one repeated.
SelectionLists ==
    {<<>>, <<"completeness">>, Dimensions, Dimensions \o <<"completeness">>}

SelectionMaps ==
    UNION {[S -> {[dimensions_to_check |-> l, dimensions_to_skip |-> <<>>,
                   reasoning |-> EmptyDict] : l \in SelectionLists}] :
              S \in SUBSET ColumnSet}

OptimizationInit ==
    /\ table = <<>>
    /\ NoPhase
    /\ report \in {[kind |-> "selection_map", dimension_selections |-> m] : m \in SelectionMaps}

AnalyzeDimensionOptimization ==
    /\ report.kind = "selection_map"
    /\ report' = [kind |-> "optimization",
                  dimension_selections |-> report.dimension_selections,
                  dimension_optimization |->
                      _analyze_dimension_optimization(report.dimension_selections)]
    /\ UNCHANGED <<table, sched>>

OptimizationNext == AnalyzeDimensionOptimization

OptimizationSpec == OptimizationInit /\ [][OptimizationNext]_vars

\* 5 x the number of columns, and the total length of the dimensions_to_check
\* lists, of the analysed selection map.
PossibleChecks == 5 * Cardinality(DOMAIN report.dimension_selections)

ActualChecks ==
    SumOver(DOMAIN report.dimension_selections,
            [c \in DOMAIN report.dimension_selections |->
                Len(report.dimension_selections[c].dimensions_to_check)])

\* C25 as claimed: for every selection map, one without columns included,
\* optimization_percentage is computed without error, is
\* 100 * (1 - actual_checks / possible_checks) to one decimal, and lies in
\* [0, 100].
C25_AsClaimed ==
    report.kind = "optimization" =>
        /\ "raised" \notin DOMAIN report.dimension_optimization
        /\ "optimization_percentage" \in DOMAIN report.dimension_optimization
        /\ LET p == report.dimension_optimization.optimization_percentage
           IN  /\ p >= 0 /\ p <= 1000
               /\ 2 * PossibleChecks * p <= 2000 * (PossibleChecks - ActualChecks) + PossibleChecks
               /\ 2 * PossibleChecks * p > 2000 * (PossibleChecks - ActualChecks) - PossibleChecks

\* With at least one column the percentage is computed, by the formula.
C25_ComputedWithColumns ==
    (report.kind = "optimization" /\ PossibleChecks > 0) =>
        /\ "raised" \notin DOMAIN report.dimension_optimization
        /\ LET p == report.dimension_optimization.optimization_percentage
           IN  /\ 2 * PossibleChecks * p <= 2000 * (PossibleChecks - ActualChecks) + PossibleChecks
               /\ 2 * PossibleChecks * p > 2000 * (PossibleChecks - ActualChecks) - PossibleChecks

\* With at least one column and no list longer than the five dimensions the
\* percentage lies in [0, 100].
C25_InRangeWithinFive ==
    (/\ report.kind = "optimization"
     /\ PossibleChecks > 0
     /\ \A c \in DOMAIN report.dimension_selections :
           Len(report.dimension_selections[c].dimensions_to_check) <= 5) =>
        /\ report.dimension_optimization.optimization_percentage >= 0
        /\ report.dimension_optimization.optimization_percentage <= 1000

\* The percentage is never negative when there are columns: violated by a
\* map whose lists are longer than five entries.
C25_NeverNegative ==
    (report.kind = "optimization" /\ PossibleChecks > 0) =>
        report.dimension_optimization.optimization_percentage >= 0

\* any(indicator in name.lower()) over id, key, number, no, reference, and
\* 'date' or 'time' in the declared type, of a column of the model class.
NameIsIdLike(c) ==
    \E indicator \in {<<"i","d">>, <<"k","e","y">>, <<"n","u","m","b","e","r">>,
                      <<"n","o">>, <<"r","e","f","e","r","e","n","c","e">>} :
        Contains(Lower(ColumnName[c]), indicator)

TypeIsDateOrTime(c) ==
    \E word \in {<<"d","a","t","e">>, <<"t","i","m","e">>} : Contains(Lower(ColumnType[c]), word)

\* C26: in a deterministic report a column has a uniqueness result only if
\* its name contains id, key, number, no or reference, and a timeliness
\* result only if its declared type contains date or time; in an LLM-guided
\* report a column has a result only for dimensions of its
\* dimensions_to_check list.
C26_OnlyApplicableDimensions ==
    (Returned /\ report.body.total_records > 0) =>
        \A c \in DOMAIN report.body.column_analysis :
            LET column == report.body.column_analysis[c]
            IN  /\ report.path = "deterministic" =>
                      /\ "uniqueness" \in ResultsOf(column) => NameIsIdLike(c)
                      /\ "timeliness" \in ResultsOf(column) => TypeIsDateOrTime(c)
                /\ report.path = "llm" =>
                      ResultsOf(column)
                          \subseteq Elements(report.dimension_selections[c].dimensions_to_check)

\* A deterministic report in which the ID-like column has a uniqueness
\* result, the date column a timeliness result, and the column that is
\* neither has completeness, consistency and validity only.
C26_Witness ==
    /\ Returned
    /\ report.path = "deterministic"
    /\ report.body.total_records > 0
    /\ "uniqueness" \in ResultsOf(report.body.column_analysis["event_id"])
    /\ "timeliness" \in ResultsOf(report.body.column_analysis["reported_date"])
    /\ ResultsOf(report.body.column_analysis["region"])
          = {"completeness", "consistency", "validity"}

\* An LLM-guided report of a column whose selection checks two dimensions
\* and skips three: it has the two results.
C26_LLMWitness ==
    /\ Returned
    /\ report.path = "llm"
    /\ report.body.total_records > 0
    /\ \E c \in DOMAIN report.body.column_analysis :
          /\ Len(report.dimension_selections[c].dimensions_to_check) = 2
          /\ Len(report.dimension_selections[c].dimensions_to_skip) = 3
          /\ Cardinality(ResultsOf(report.body.column_analysis[c])) = 2

\* C27 as claimed: in every LLM-guided report the overall_column_score of
\* every column is from 0 to 100, whatever dimensions_to_check list the
\* selector returned, lists that repeat a name or hold a name outside the
\* five dimensions included.
C27_AsClaimed ==
    (Returned /\ report.path = "llm") =>
        \A c \in DOMAIN report.body.column_analysis :
            /\ report.body.column_analysis[c].overall_column_score >= 0
            /\ report.body.column_analysis[c].overall_column_score <= 1000

\* The score is in range for the columns whose list names no dimension twice.
C27_InRangeWithoutRepeats ==
    (Returned /\ report.path = "llm") =>
        \A c \in DOMAIN report.body.column_analysis :
            LET column == report.body.column_analysis[c]
            IN  Cardinality(Elements(column.dimensions_checked)) = Len(column.dimensions_checked) =>
                    /\ column.overall_column_score >= 0
                    /\ column.overall_column_score <= 1000

\* At least one checked dimension of the column scored below 70.
HasPoorDimension(column) ==
    \E d \in Elements(Get(column, "dimensions_checked", <<>>)) :
        /\ d \in DOMAIN column
        /\ d \notin NonDictKeys
        /\ Get(column[d], "score", 0) < 700

\* The entries of the summary that name a column: top_issues and the
\* "Fix ..." and "Address ..." recommendations.
SummaryEntries ==
    LET summary == report.body.summary
        Named(list) == {list[i] : i \in {j \in 1..Len(list) : "column" \in DOMAIN list[j]}}
    IN  Named(summary.top_issues)
        \cup Named(summary.recommendations.immediate)
        \cup Named(summary.recommendations.short_term)

\* C28 as claimed: in an LLM-guided report, top_issues and the immediate and
\* short_term recommendations have entries only for columns with a checked
\* dimension that scored below 70; the text 'No significant data quality
\* issues detected' of the other columns is not among them.
C28_AsClaimed ==
    (Returned /\ report.path = "llm" /\ report.body.total_records > 0) =>
        \A e \in SummaryEntries :
            /\ HasPoorDimension(report.body.column_analysis[e.column])
            /\ e.issue.kind # "none"

\* Every entry that is not that text belongs to a column with a checked
\* dimension that scored below 70.
C28_RealIssuesOnly ==
    (Returned /\ report.path = "llm" /\ report.body.total_records > 0) =>
        \A e \in SummaryEntries :
            e.issue.kind # "none" => HasPoorDimension(report.body.column_analysis[e.column])

\* The dimensions for which a column of the report has a result with a score.
DimensionsWithResult ==
    {d \in DimensionSet :
        \E c \in DOMAIN report.body.column_analysis :
            /\ d \in DOMAIN report.body.column_analysis[c]
            /\ "score" \in DOMAIN report.body.column_analysis[c][d]}

\* Every dimension result of every column of the report scores 100.
AllResultsPerfect ==
    \A c \in DOMAIN report.body.column_analysis :
        \A d \in ResultsOf(report.body.column_analysis[c]) :
            report.body.column_analysis[c][d].score = 1000

\* C29 as claimed: in a deterministic report a dimension without a result in
\* any column is left out of overall_health.score, so that a report whose
\* dimension results all score 100 has overall score 100 and grade
\* Excellent.
C29_AsClaimed ==
    (/\ Returned
     /\ report.path = "deterministic"
     /\ report.body.total_records > 0
     /\ DimensionsWithResult # {}
     /\ AllResultsPerfect) =>
        /\ report.body.overall_health.score = 1000
        /\ report.body.overall_health.grade = "Excellent"

\* What the code computes: a dimension without a result counts as score 0
\* with its full weight, the divisor is always 100.
C29_AbsentDimensionCountsZero ==
    (/\ Returned
     /\ report.path = "deterministic"
     /\ report.body.total_records > 0
     /\ AllResultsPerfect) =>
        report.body.overall_health.score
            = 10 * SumOver(DimensionsWithResult,
                           [completeness |-> 25, uniqueness |-> 10, consistency |-> 20,
                            validity |-> 20, timeliness |-> 25])

(***************************************************************************)
(* A request beside writers.  The request counts the records, then counts  *)
(* column by column; other sessions insert and delete in between.  The     *)
(* deterministic path counts in the session of the record count, whose     *)
(* isolation level the service does not set: a column count sees the       *)
(* table as it is now or as it was at the record count.  The per-column    *)
(* scorer of the LLM-guided path opens a session of its own and sees the   *)
(* table as it is now.                                                     *)
(***************************************************************************)
ConcurrentInit ==
    /\ table = <<>>
    /\ report = NoReport
    /\ NoPhase

WriterInserts ==
    /\ Len(table) < MaxRecords
    /\ \E r \in RecordPool : table' = Append(table, Rows(r, 1))
    /\ UNCHANGED <<report, sched>>

WriterDeletes ==
    /\ \E i \in 1..Len(table) :
          table' = SubSeq(table, 1, i - 1) \o SubSeq(table, i + 1, Len(table))
    /\ UNCHANGED <<report, sched>>

\* total_records = db.query(model_class).count(); an empty table gets the
\* empty report at once.
CountRecords ==
    /\ report = NoReport
    /\ \E path \in {"deterministic", "llm"} :
          report' = IF Count(table) = 0
                    THEN [kind |-> "completeness", path |-> path, total_records |-> 0,
                          snapshot |-> table, pending |-> <<>>, completeness |-> EmptyDict]
                    ELSE [kind |-> "completeness", path |-> path, total_records |-> Count(table),
                          snapshot |-> table, pending |-> AnalysisColumns,
                          completeness |-> EmptyDict]
    /\ UNCHANGED <<table, sched>>

\* The count query of the next column and the result computed from it.
CountColumn ==
    /\ report.kind = "completeness"
    /\ report.pending # <<>>
    /\ LET c == Head(report.pending)
       IN  \E seen \in IF report.path = "deterministic" THEN {table, report.snapshot} ELSE {table} :
              report' = [report EXCEPT
                            !.pending = Tail(report.pending),
                            !.completeness =
                                report.completeness @@
                                (c :> IF report.path = "deterministic"
                                      THEN _get_batch_completeness_stats(
                                               seen, {c}, report.total_records, "none")[c]
                                      ELSE _assess_completeness(
                                               seen, c, report.total_records, FALSE))]
    /\ UNCHANGED <<table, sched>>

\* The caller takes the report.
ReturnCompleteness ==
    /\ report.kind = "completeness"
    /\ report.pending = <<>>
    /\ report' = NoReport
    /\ UNCHANGED <<table, sched>>

ConcurrentNext ==
    \/ WriterInserts
    \/ WriterDeletes
    \/ CountRecords
    \/ CountColumn
    \/ ReturnCompleteness

ConcurrentSpec == ConcurrentInit /\ [][ConcurrentNext]_vars

\* C30 as claimed: whatever writers do between the record count and the
\* count of a column, every completeness result has null_count >= 0,
\* 0 <= non_null_count <= total_records and a score of at most 100.
C30_AsClaimed ==
    report.kind = "completeness" =>
        \A c \in DOMAIN report.completeness :
            /\ report.completeness[c].null_count >= 0
            /\ report.completeness[c].non_null_count >= 0
            /\ report.completeness[c].non_null_count <= report.total_records
            /\ report.completeness[c].score <= 1000

\* The same for the per-column scorer of the LLM-guided path alone, whose
\* session is always a new one.
C30_AsClaimedLLM ==
    (report.kind = "completeness" /\ report.path = "llm") =>
        \A c \in DOMAIN report.completeness :
            /\ report.completeness[c].null_count >= 0
            /\ report.completeness[c].non_null_count >= 0
            /\ report.completeness[c].non_null_count <= report.total_records
            /\ report.completeness[c].score <= 1000

\* The two counts of a result always add up to total_records.
C30_CountsAddUp ==
    report.kind = "completeness" =>
        \A c \in DOMAIN report.completeness :
            report.completeness[c].null_count + report.completeness[c].non_null_count
                = report.total_records

====
